---- MODULE Spec2Model ----
(***************************************************************************)
(* Turn-taking orchestrators of Parley.                                    *)
(*                                                                         *)
(*   part_001  ResponsiveAIAssistant with on-device synthesis              *)
(*             (components/ResponsiveAIAssistant.tsx, after the uploader   *)
(*             hook that shares the file)                                  *)
(*   part_002  ResponsiveAIAssistant with server-rendered audio clips      *)
(*                                                                         *)
(* Both components register the detector callbacks and the socket          *)
(* listeners inside one useEffect(..., []) that runs once, after the       *)
(* first render.  Every identifier those callbacks read that is React      *)
(* state (not a ref) is therefore the value of the FIRST render; the       *)
(* definitions Mount... below carry these values.  The functions the       *)
(* callbacks call (handleSendMessage, speakChunk) are the first render's   *)
(* functions too, hence the state argument of the operators that model     *)
(* them.  Handlers bound in JSX (buttons, key press) belong to the         *)
(* current render and read the current state.                              *)
(*                                                                         *)
(* Text is a sequence of one-character strings, so that trim() and the     *)
(* truthiness of a string are computed, not assumed.                       *)
(***************************************************************************)
EXTENDS Integers, Sequences, FiniteSets, TLC

\* ------------------------------------------------------------------ bounds
MaxMessages == 2
MaxOutstanding == 2
MaxStreamLen == 2
MaxTimers   == 1
MaxSegments == 3
MaxOldTimers == 1
MaxClips == 2
MaxUploads == 2

\* ----------------------------------------------------------------- helpers
NULL == "null"

Empty == << >>

RECURSIVE TrimStart(_)
TrimStart(s) ==
  IF s = Empty THEN Empty
  ELSE IF Head(s) = " " THEN TrimStart(Tail(s)) ELSE s

RECURSIVE TrimEnd(_)
TrimEnd(s) ==
  IF s = Empty THEN Empty
  ELSE IF s[Len(s)] = " " THEN TrimEnd(SubSeq(s, 1, Len(s) - 1)) ELSE s

\* the text as it is, not trimmed
Untrimmed(s) == s

\* String.prototype.trim
Trim(s) == TrimEnd(TrimStart(s))

\* a || b on strings: the empty string is falsy, " " is truthy
OrElse(a, b) == IF a # Empty THEN a ELSE b

\* --------------------------------------------------------- input domains
TypedTexts    == { <<" ">>, <<"a">> }
SpokenTexts   == { <<" ">>, <<"b", " ">> }
ChunkTexts    == { <<"x">> }
ResponseTexts == { <<"y">> }
SegmentTexts  == { <<" ">>, <<"a">>, <<"b">>, <<"c">> }
SocketSessionIds == { "s1" }
\* sessionData is null (no document) or the record the uploader delivers
NoSessionData == [present |-> FALSE, sessionId |-> "", initialMessage |-> Empty]
PdfSessions == { [present |-> TRUE, sessionId |-> "p1", initialMessage |-> <<"i">>] }
HistoryLists == { << >>,
                  << [role |-> "tutor", content |-> <<"i">>] >>,
                  << [role |-> "user", content |-> <<"a">>],
                     [role |-> "tutor", content |-> <<"x">>] >> }

\* --------------------------------------------------------------- part_001
VARIABLES
  messages, inputText, isListening, isSpeaking, showChat,
  recognition, speechSynthesis, socketRef,
  sessionId, sessionIdRef, isConnected,
  currentAIMessage, isAIResponding,
  speechQueueRef, isSpeakingRef,
  conversationMode, isConversationLocked, audioMode,
  isRecognitionRunningRef, lastTranscriptRef,
  sessionData,
  \* collaborators and observations
  detector,      \* the browser recogniser: "idle", "running", "stopping"
  synth,         \* utterances handed to speechSynthesis.speak, not yet ended
  timers,        \* pending setTimeout callbacks, by kind
  emitted,       \* the user_message events the last step put on the socket
  srvPending,    \* user_messages the responder has not started answering
  srvActive,     \* responses the responder is streaming
  joinRequested, \* join_session emitted and not yet answered
  notice,        \* the alert() raised by the last step, or "none"
  sendResult,    \* what handleSendMessage did in the last step
  lastStart,     \* what recognition.start() did in the last step
  enqLog,        \* segments accepted by speakChunk, in order
  spokenLog,     \* segments handed to speechSynthesis.speak, in order
  capture        \* the utterance being captured: where the sequence
                 \* onspeechstart, results, final result, onend stands, the
                 \* final text, and what the recogniser callbacks emitted

vars1 == << messages, inputText, isListening, isSpeaking, showChat,
            recognition, speechSynthesis, socketRef,
            sessionId, sessionIdRef, isConnected,
            currentAIMessage, isAIResponding,
            speechQueueRef, isSpeakingRef,
            conversationMode, isConversationLocked, audioMode,
            isRecognitionRunningRef, lastTranscriptRef,
            sessionData,
            detector, synth, timers, emitted, srvPending, srvActive, joinRequested,
            notice, sendResult, lastStart, enqLog, spokenLog, capture >>

\* --------------------------------------------------------------- part_002
VARIABLES
  inputText2, isListening2, showChat2, sessionId2, sessionIdRef2,
  isConnected2, isAIResponding2,
  conversationMode2, isRecognitionRunningRef2, lastTranscriptRef2,
  micEnabledRef2,
  audioMode2, audioModeRef2, audioQueueRef2, currentAudioRef2, isSpeaking2,
  audioElems2,    \* the Audio elements playNextAudio created, in order:
                  \* the play() promise, paused, and ended or failed
  detector2,      \* the browser recogniser
  silence2,       \* pending end-of-speech timers: the one silenceTimer
                  \* names (latest) and those set before it (old)
  restart2,       \* pending restart timers, by kind
  joinRequested2, srvPending2, srvActive2,
  emitted2, sendResult2, notice2, lastStart2,
  cycle2          \* the capture cycle: whether an onspeechstart opened it,
                  \* the final results and the user_messages the recogniser
                  \* callbacks emitted since

vars2 == << inputText2, isListening2, showChat2, sessionId2, sessionIdRef2,
            isConnected2, isAIResponding2,
            conversationMode2, isRecognitionRunningRef2, lastTranscriptRef2,
            micEnabledRef2,
            audioMode2, audioModeRef2, audioQueueRef2, currentAudioRef2,
            isSpeaking2, audioElems2,
            detector2, silence2, restart2, joinRequested2, srvPending2,
            srvActive2,
            emitted2, sendResult2, notice2, lastStart2, cycle2 >>

\* which of the two components the page mounts
VARIABLE variant

\* ---------------------------------------------------------- usePdfUploader
VARIABLES
  isUploading, uploadStatus, uploadError,
  dropHandlerIsUploading, \* the isUploading that the handleFileDrop held by
                          \* the registered drop listener closed over
  uploads,       \* the calls of handleFileDrop that got past its guards, in
                 \* order: the file and where the call stands
  requests,      \* the fetch calls issued, in order
  delivered,     \* the calls of onUploadSuccess, in order
  dropResult     \* what the drop listener did in the last step

varsUploader == << isUploading, uploadStatus, uploadError,
                   dropHandlerIsUploading, uploads, requests, delivered,
                   dropResult >>

vars == << vars1, vars2, variant, varsUploader >>

Frame1 == UNCHANGED << vars2, variant, varsUploader >>
Frame2 == UNCHANGED << vars1, variant, varsUploader >>
FrameUploader == UNCHANGED << vars1, vars2, variant >>

\* the conversationMode of the latest render
LiveConversationMode == conversationMode

\* values of the first render, seen by the callbacks of the mount effect
MountConversationMode     == TRUE
MountIsConversationLocked == FALSE
MountAudioMode            == TRUE
MountIsAIResponding       == FALSE
\* the recognition of the later renders
LaterRecognition          == "recognitionInstance"
MountRecognition          == NULL
MountSpeechSynthesis      == NULL
MountSessionData          == NoSessionData
MountInputText            == Empty
MountSessionId            == ""

TimerKinds == { "onendRestart", "errorRetry", "settle" }

NoCapture == [phase |-> "idle", finalText |-> Empty, sends |-> << >>,
              joined |-> FALSE, mode |-> FALSE, error |-> "none"]

\* what onend found, or the error onerror was called with, is kept for one
\* step
CaptureKept ==
  capture' = IF capture.phase \in { "ended", "failed" } THEN NoCapture
             ELSE capture

Init1 ==
  /\ messages = << >>
  /\ inputText = Empty
  /\ isListening = FALSE
  /\ isSpeaking = FALSE
  /\ showChat = FALSE
  /\ recognition = "recognitionInstance"
  /\ speechSynthesis = "speechSynthesis"
  /\ socketRef = "newSocket"
  /\ sessionId = ""
  /\ sessionIdRef = ""
  /\ isConnected = FALSE
  /\ currentAIMessage = Empty
  /\ isAIResponding = FALSE
  /\ speechQueueRef = << >>
  /\ isSpeakingRef = FALSE
  /\ conversationMode = TRUE
  /\ isConversationLocked = FALSE
  /\ audioMode = TRUE
  /\ isRecognitionRunningRef = FALSE
  /\ lastTranscriptRef = Empty
  /\ sessionData = NoSessionData
  /\ detector = "idle"
  /\ synth = << >>
  /\ timers = [k \in TimerKinds |-> 0]
  /\ emitted = << >>
  /\ srvPending = 0
  /\ srvActive = 0
  /\ joinRequested = FALSE
  /\ notice = "none"
  /\ sendResult = "none"
  /\ lastStart = "none"
  /\ enqLog = << >>
  /\ spokenLog = << >>
  /\ capture = NoCapture

\* ------------------------------------------- useEffect([sessionData, ...])
View == [sessionData |-> sessionData, showChat |-> showChat,
         messages |-> messages, isConversationLocked |-> isConversationLocked]

Deps(v) == << v.sessionData, v.showChat, Len(v.messages) >>

\* the initial message is never found
HasTextNever(msgs, t) == FALSE

HasText(msgs, t) == \E i \in 1..Len(msgs) : msgs[i].text = t

\* the reset branch empties the list and hides the chat, without the lock
SessionEffectNoLock(v) ==
  IF v.sessionData.present /\ ~v.showChat
  THEN [v EXCEPT !.showChat = TRUE,
                 !.messages =
                    IF v.sessionData.initialMessage # Empty
                       /\ ~HasText(v.messages, v.sessionData.initialMessage)
                    THEN Append(@, [text |-> v.sessionData.initialMessage,
                                    sender |-> "ai"])
                    ELSE @]
  ELSE IF ~v.sessionData.present /\ Len(v.messages) > 0
  THEN [v EXCEPT !.messages = << >>, !.showChat = FALSE]
  ELSE v

\* one run of the effect body
SessionEffect(v) ==
  IF v.sessionData.present /\ ~v.showChat
  THEN [v EXCEPT !.showChat = TRUE,
                 !.messages =
                    IF v.sessionData.initialMessage # Empty
                       /\ ~HasText(v.messages, v.sessionData.initialMessage)
                    THEN Append(@, [text |-> v.sessionData.initialMessage,
                                    sender |-> "ai"])
                    ELSE @]
  ELSE IF ~v.sessionData.present /\ Len(v.messages) > 0
  THEN [v EXCEPT !.messages = << >>, !.showChat = FALSE,
                 !.isConversationLocked = TRUE]
  ELSE v

\* React re-runs the effect after every render in which a dependency changed
Settle(old, new) ==
  IF Deps(old) = Deps(new) THEN new
  ELSE LET a == SessionEffect(new) IN
       IF Deps(a) = Deps(new) THEN a
       ELSE LET b == SessionEffect(a) IN
            IF Deps(b) = Deps(a) THEN b ELSE SessionEffect(b)

\* the state updates of one handler, followed by the renders they cause
Commit(new) ==
  LET fin == Settle(View, new) IN
  /\ Len(fin.messages) <= MaxMessages
  /\ sessionData' = fin.sessionData
  /\ showChat' = fin.showChat
  /\ messages' = fin.messages
  /\ isConversationLocked' = fin.isConversationLocked

\* --------------------------------------------------- handleSendMessage
\* the guard without its !activeSessionId disjunct
HandleSendMessageAnySession(messageText, inText, sd, sid) ==
  LET textToSend == OrElse(messageText, inText)
      activeSessionId ==
        IF sd.present /\ sd.sessionId # "" THEN sd.sessionId
        ELSE IF sessionIdRef # "" THEN sessionIdRef ELSE sid
      noLink == socketRef = NULL
  IN IF Trim(textToSend) = Empty \/ noLink
     THEN [emit |-> FALSE, alert |-> noLink, blank |-> Trim(textToSend) = Empty,
           text |-> textToSend, session |-> activeSessionId]
     ELSE [emit |-> TRUE, alert |-> FALSE, blank |-> FALSE,
           text |-> textToSend, session |-> activeSessionId]

\* inText, sd and sid are the inputText, sessionData and sessionId of the
\* render the calling closure belongs to
HandleSendMessage(messageText, inText, sd, sid) ==
  LET textToSend == OrElse(messageText, inText)
      activeSocket == socketRef
      activeSessionId ==
        IF sd.present /\ sd.sessionId # "" THEN sd.sessionId
        ELSE IF sessionIdRef # "" THEN sessionIdRef ELSE sid
      noLink == activeSocket = NULL \/ activeSessionId = ""
  IN IF Trim(textToSend) = Empty \/ noLink
     THEN [emit |-> FALSE, alert |-> noLink, blank |-> Trim(textToSend) = Empty,
           text |-> textToSend, session |-> activeSessionId]
     ELSE [emit |-> TRUE, alert |-> FALSE, blank |-> FALSE,
           text |-> textToSend, session |-> activeSessionId]

SendOutcome(r) ==
  IF r.emit THEN "emitted" ELSE IF r.alert THEN "no_session" ELSE "blank"

\* the state a call of handleSendMessage leaves behind; v is the view the
\* caller has built so far
ApplySend(r, v) ==
  /\ sendResult' = SendOutcome(r)
  /\ notice' = IF r.alert THEN "not_connected" ELSE "none"
  /\ IF r.emit
     THEN /\ srvPending + srvActive < MaxOutstanding
          /\ emitted' = << [sessionId |-> r.session, message |-> r.text] >>
          /\ srvPending' = srvPending + 1
          /\ inputText' = Empty
          /\ Commit([v EXCEPT !.messages = Append(@, [text |-> r.text,
                                                       sender |-> "user"]),
                              !.showChat = TRUE])
     ELSE /\ emitted' = << >>
          /\ UNCHANGED << srvPending, inputText >>
          /\ Commit(v)

\* ------------------------------------------------------------ recogniser
\* recognition.start() on the object rec the calling closure holds
StartOutcome(rec) ==
  IF rec = NULL THEN "typeerror"
  ELSE IF detector = "idle" THEN "started" ELSE "invalidstate"

\* recognition.stop(): the recogniser ends later, with onend
StopDetector == IF detector = "running" THEN "stopping" ELSE detector

Invoked(o) == o \in { "started", "invalidstate" }

Quiet ==
  /\ notice' = "none"
  /\ sendResult' = "none"
  /\ lastStart' = "none"
  /\ emitted' = << >>

playbackVars == << speechQueueRef, isSpeakingRef, isSpeaking, synth,
                   enqLog, spokenLog >>
deviceVars   == << recognition, speechSynthesis, socketRef >>
viewVars     == << sessionData, showChat, messages, isConversationLocked >>
serverVars   == << srvPending, srvActive, joinRequested >>
streamVars   == << currentAIMessage, isAIResponding >>
sessionVars  == << sessionId, sessionIdRef, isConnected >>

\* ------------------------------------------------ commands of the UI layer
\* <Input onChange>
TypeInput(t) ==
  /\ t # inputText
  /\ inputText' = t
  /\ Quiet
  /\ UNCHANGED << viewVars, isListening, deviceVars, sessionVars, streamVars,
                  playbackVars, conversationMode, audioMode,
                  isRecognitionRunningRef, lastTranscriptRef, detector, timers,
                  serverVars >>
  /\ CaptureKept
  /\ Frame1

\* a call of handleSendMessage() from the current render
SendTyped ==
  LET r == HandleSendMessage(Empty, inputText, sessionData, sessionId) IN
  /\ ApplySend(r, View)
  /\ lastStart' = "none"
  /\ UNCHANGED << isListening, deviceVars, sessionVars, streamVars,
                  playbackVars, conversationMode, audioMode,
                  isRecognitionRunningRef, lastTranscriptRef, detector, timers,
                  srvActive, joinRequested >>
  /\ CaptureKept
  /\ Frame1

\* the Send button, rendered disabled while it must not be used
ClickSend ==
  /\ ~(Trim(inputText) = Empty \/ ~isConnected \/ isAIResponding)
  /\ SendTyped

\* handleKeyPress, Enter without Shift
PressEnter == SendTyped

\* handleVoiceInput, the microphone button (tap-to-talk)
handleVoiceInput ==
  /\ IF recognition = NULL
     THEN /\ notice' = "unsupported"
          /\ lastStart' = "none"
          /\ UNCHANGED << isListening, isRecognitionRunningRef, detector >>
     ELSE /\ notice' = "none"
          /\ IF isListening
             THEN /\ detector' = StopDetector
                  /\ isRecognitionRunningRef' = FALSE
                  /\ isListening' = FALSE
                  /\ lastStart' = "none"
             ELSE IF ~isRecognitionRunningRef
             THEN LET o == StartOutcome(recognition) IN
                  /\ lastStart' = o
                  /\ IF o = "started"
                     THEN /\ detector' = "running"
                          /\ isRecognitionRunningRef' = TRUE
                          /\ isListening' = TRUE
                     ELSE UNCHANGED << detector, isRecognitionRunningRef,
                                       isListening >>
             ELSE /\ lastStart' = "none"
                  /\ UNCHANGED << detector, isRecognitionRunningRef,
                                  isListening >>
  /\ sendResult' = "none"
  /\ emitted' = << >>
  /\ UNCHANGED << viewVars, inputText, deviceVars, sessionVars, streamVars,
                  playbackVars, conversationMode, audioMode,
                  lastTranscriptRef, timers, serverVars >>
  /\ CaptureKept
  /\ Frame1

\* toggleConversationMode; its button is on the welcome screen and is
\* rendered disabled while isConversationLocked
toggleConversationMode ==
  /\ ~showChat
  /\ ~isConversationLocked
  /\ IF recognition = NULL
     THEN /\ notice' = "unsupported"
          /\ lastStart' = "none"
          /\ UNCHANGED << isListening, isRecognitionRunningRef, detector,
                          conversationMode, audioMode >>
          /\ Commit(View)
     ELSE /\ notice' = "none"
          /\ IF conversationMode
             THEN /\ detector' = StopDetector
                  /\ isRecognitionRunningRef' = FALSE
                  /\ conversationMode' = FALSE
                  /\ audioMode' = FALSE
                  /\ isListening' = FALSE
                  /\ lastStart' = "none"
                  /\ Commit([View EXCEPT !.isConversationLocked = TRUE])
             ELSE IF ~isConversationLocked /\ ~isRecognitionRunningRef
             THEN LET o == StartOutcome(recognition) IN
                  /\ lastStart' = o
                  /\ IF o = "started"
                     THEN /\ detector' = "running"
                          /\ isRecognitionRunningRef' = TRUE
                          /\ conversationMode' = TRUE
                          /\ audioMode' = TRUE
                          /\ isListening' = TRUE
                     ELSE UNCHANGED << detector, isRecognitionRunningRef,
                                       conversationMode, audioMode,
                                       isListening >>
                  /\ Commit(View)
             ELSE /\ lastStart' = "none"
                  /\ UNCHANGED << detector, isRecognitionRunningRef,
                                  conversationMode, audioMode, isListening >>
                  /\ Commit(View)
  /\ sendResult' = "none"
  /\ emitted' = << >>
  /\ UNCHANGED << inputText, deviceVars, sessionVars, streamVars,
                  playbackVars, lastTranscriptRef, timers, serverVars >>
  /\ CaptureKept
  /\ Frame1

\* the audio button of the welcome screen, disabled while !conversationMode
ToggleAudio ==
  /\ ~showChat
  /\ conversationMode
  /\ audioMode' = ~audioMode
  /\ Quiet
  /\ UNCHANGED << viewVars, inputText, isListening, deviceVars, sessionVars,
                  streamVars, playbackVars, conversationMode,
                  isRecognitionRunningRef, lastTranscriptRef, detector, timers,
                  serverVars >>
  /\ CaptureKept
  /\ Frame1

\* "Start Chat" on the welcome screen, the X of the chat header
SetShowChat(b) ==
  /\ showChat # b
  /\ Commit([View EXCEPT !.showChat = b])
  /\ Quiet
  /\ UNCHANGED << inputText, isListening, deviceVars, sessionVars, streamVars,
                  playbackVars, conversationMode, audioMode,
                  isRecognitionRunningRef, lastTranscriptRef, detector, timers,
                  serverVars >>
  /\ CaptureKept
  /\ Frame1

\* the uploader's onUploadSuccess is setSessionData; handleResetClick
\* (rendered only while there is a document) sets it back to null
SetSessionData(sd) ==
  /\ sd # sessionData
  /\ sd = NoSessionData => sessionData.present
  /\ Commit([View EXCEPT !.sessionData = sd])
  /\ Quiet
  /\ UNCHANGED << inputText, isListening, deviceVars, sessionVars, streamVars,
                  playbackVars, conversationMode, audioMode,
                  isRecognitionRunningRef, lastTranscriptRef, detector, timers,
                  serverVars >>
  /\ CaptureKept
  /\ Frame1

\* ------------------------------------------------- playback sequencer
Playback == [q |-> speechQueueRef, ref |-> isSpeakingRef, st |-> isSpeaking,
             synth |-> synth, enq |-> enqLog, spoken |-> spokenLog]

\* takes the newest segment of the queue instead of the oldest
processNextSpeechNewest(p) ==
  IF p.q = << >>
  THEN [p EXCEPT !.ref = FALSE, !.st = FALSE]
  ELSE [p EXCEPT !.ref = TRUE, !.st = TRUE,
                 !.q = SubSeq(p.q, 1, Len(p.q) - 1),
                 !.synth = Append(@, [kind |-> "segment",
                                      text |-> p.q[Len(p.q)]]),
                 !.spoken = Append(@, p.q[Len(p.q)])]

\* shift() the queue and hand the segment to speechSynthesis.speak
processNextSpeech(p) ==
  IF p.q = << >>
  THEN [p EXCEPT !.ref = FALSE, !.st = FALSE]
  ELSE [p EXCEPT !.ref = TRUE, !.st = TRUE,
                 !.q = Tail(p.q),
                 !.synth = Append(@, [kind |-> "segment", text |-> Head(p.q)]),
                 !.spoken = Append(@, Head(p.q))]

\* synthSeen is the speechSynthesis of the render the caller belongs to
speakChunk(p, text, synthSeen) ==
  IF synthSeen = NULL \/ Trim(text) = Empty THEN p
  ELSE LET p1 == [p EXCEPT !.q = Append(@, text), !.enq = Append(@, text)] IN
       IF ~p1.ref THEN processNextSpeech(p1) ELSE p1

SetPlayback(p) ==
  /\ speechQueueRef' = p.q
  /\ isSpeakingRef' = p.ref
  /\ isSpeaking' = p.st
  /\ synth' = p.synth
  /\ enqLog' = p.enq
  /\ spokenLog' = p.spoken

\* --------------------------------------------- callbacks of the recogniser
\* onspeechstart leaves the accumulated text as it is
onspeechstartKeeps ==
  /\ detector = "running"
  /\ capture' = [NoCapture EXCEPT !.phase = "interim"]
  /\ Quiet
  /\ UNCHANGED << viewVars, inputText, isListening, deviceVars, sessionVars,
                  streamVars, playbackVars, conversationMode, audioMode,
                  isRecognitionRunningRef, detector, timers, serverVars,
                  lastTranscriptRef >>
  /\ Frame1

onspeechstart ==
  /\ detector = "running"
  /\ lastTranscriptRef' = Empty
  /\ capture' = [NoCapture EXCEPT !.phase = "interim"]
  /\ Quiet
  /\ UNCHANGED << viewVars, inputText, isListening, deviceVars, sessionVars,
                  streamVars, playbackVars, conversationMode, audioMode,
                  isRecognitionRunningRef, detector, timers, serverVars >>
  /\ Frame1

\* the interim text wins over the final text
CurrentTextInterimFirst(finalText, interimText) == OrElse(interimText, finalText)

\* const currentText = finalText || interimText
CurrentText(finalText, interimText) == OrElse(finalText, interimText)

\* finalText and interimText are the concatenations the loop builds
onresult(finalText, interimText) ==
  /\ detector \in { "running", "stopping" }
  /\ LET currentText == CurrentText(finalText, interimText) IN
     lastTranscriptRef' = IF currentText # Empty THEN currentText
                          ELSE lastTranscriptRef
  /\ capture' = IF capture.phase = "interim" /\ finalText # Empty
                THEN [capture EXCEPT !.phase = "final", !.finalText = finalText]
                ELSE IF capture.phase = "interim" /\ finalText = Empty
                THEN capture
                ELSE NoCapture
  /\ Quiet
  /\ UNCHANGED << viewVars, inputText, isListening, deviceVars, sessionVars,
                  streamVars, playbackVars, conversationMode, audioMode,
                  isRecognitionRunningRef, detector, timers, serverVars >>
  /\ Frame1

onspeechend ==
  /\ detector = "running"
  /\ detector' = StopDetector
  /\ Quiet
  /\ UNCHANGED << viewVars, inputText, isListening, deviceVars, sessionVars,
                  streamVars, playbackVars, conversationMode, audioMode,
                  isRecognitionRunningRef, lastTranscriptRef, timers,
                  serverVars >>
  /\ CaptureKept
  /\ Frame1

ErrorKinds == { "no-speech", "aborted", "network" }

\* the recogniser reports an error and then ends
\* every error is retried
AlwaysRecoverable(kind) == TRUE

Recoverable(kind) == kind = "no-speech" \/ kind = "aborted"

onerror(kind) ==
  /\ detector \in { "running", "stopping" }
  /\ detector' = "stopping"
  /\ capture' = [NoCapture EXCEPT !.phase = "failed", !.error = kind]
  /\ IF Recoverable(kind)
     THEN /\ IF MountConversationMode /\ ~MountIsConversationLocked
             THEN /\ timers["errorRetry"] < MaxTimers
                  /\ timers' = [timers EXCEPT !["errorRetry"] = @ + 1]
             ELSE UNCHANGED timers
          /\ UNCHANGED << conversationMode, isListening >>
          /\ Commit(View)
     ELSE /\ conversationMode' = FALSE
          /\ isListening' = FALSE
          /\ Commit([View EXCEPT !.isConversationLocked = TRUE])
          /\ UNCHANGED timers
  /\ Quiet
  /\ UNCHANGED << inputText, deviceVars, sessionVars, streamVars,
                  playbackVars, audioMode, isRecognitionRunningRef,
                  lastTranscriptRef, serverVars >>
  /\ Frame1

onend ==
  /\ detector \in { "running", "stopping" }
  /\ detector' = "idle"
  /\ isRecognitionRunningRef' = FALSE
  /\ LET textToSend == Trim(lastTranscriptRef) IN
     IF textToSend # Empty /\ MountConversationMode
     THEN /\ ApplySend(HandleSendMessage(textToSend, MountInputText,
                                         MountSessionData, MountSessionId),
                       View)
          /\ lastTranscriptRef' = Empty
     ELSE /\ sendResult' = "none"
          /\ notice' = "none"
          /\ emitted' = << >>
          /\ UNCHANGED << srvPending, inputText, lastTranscriptRef >>
          /\ Commit(View)
  /\ IF MountConversationMode /\ ~MountIsAIResponding
        /\ ~MountIsConversationLocked
     THEN /\ timers["onendRestart"] < MaxTimers
          /\ timers' = [timers EXCEPT !["onendRestart"] = @ + 1]
          /\ UNCHANGED isListening
     ELSE /\ isListening' = FALSE
          /\ UNCHANGED timers
  /\ lastStart' = "none"
  /\ capture' = IF capture.phase = "final"
                THEN [capture EXCEPT
                        !.phase = "ended",
                        !.sends = [i \in 1..Len(emitted') |-> emitted'[i].message],
                        !.joined = sessionIdRef # "",
                        !.mode = conversationMode]
                ELSE NoCapture
  /\ UNCHANGED << deviceVars, sessionVars, streamVars, playbackVars,
                  conversationMode, audioMode, srvActive, joinRequested >>
  /\ Frame1

\* a setTimeout callback runs
TimerFire(k) ==
  /\ timers[k] > 0
  /\ timers' = [timers EXCEPT ![k] = @ - 1]
  /\ IF k = "errorRetry"
     THEN \* recognition?.start()
          LET o == StartOutcome(MountRecognition) IN
          /\ lastStart' = IF MountRecognition = NULL THEN "none" ELSE o
          /\ detector' = IF o = "started" THEN "running" ELSE detector
          /\ UNCHANGED isRecognitionRunningRef
     ELSE \* the guarded restart of onend and of ai_complete
          IF ~isRecognitionRunningRef
          THEN LET o == StartOutcome(MountRecognition) IN
               /\ lastStart' = o
               /\ detector' = IF o = "started" THEN "running" ELSE detector
               /\ isRecognitionRunningRef' = (o = "started")
          ELSE /\ lastStart' = "none"
               /\ UNCHANGED << detector, isRecognitionRunningRef >>
  /\ notice' = "none"
  /\ sendResult' = "none"
  /\ emitted' = << >>
  /\ UNCHANGED << viewVars, inputText, isListening, deviceVars, sessionVars,
                  streamVars, playbackVars, conversationMode, audioMode,
                  lastTranscriptRef, serverVars >>
  /\ CaptureKept
  /\ Frame1

\* ------------------------------------------------ listeners of the socket
\* the transport is up exactly while isConnected: 'connect' and
\* 'session_joined' set it, 'disconnect' clears it, and the other events
\* only arrive over a transport that is up
connect ==
  /\ ~isConnected
  /\ isConnected' = TRUE
  /\ Quiet
  /\ UNCHANGED << viewVars, inputText, isListening, deviceVars, sessionId,
                  sessionIdRef, streamVars, playbackVars, conversationMode,
                  audioMode, isRecognitionRunningRef, lastTranscriptRef,
                  detector, timers, serverVars >>
  /\ CaptureKept
  /\ Frame1

connected(sid) ==
  /\ isConnected
  /\ ~joinRequested
  /\ sessionId' = sid
  /\ sessionIdRef' = sid
  /\ joinRequested' = TRUE
  /\ Quiet
  /\ UNCHANGED << viewVars, inputText, isListening, deviceVars, isConnected,
                  streamVars, playbackVars, conversationMode, audioMode,
                  isRecognitionRunningRef, lastTranscriptRef, detector, timers,
                  srvPending, srvActive >>
  /\ CaptureKept
  /\ Frame1

LastTutor(history) ==
  LET idx == { i \in 1..Len(history) : history[i].role = "tutor" } IN
  IF idx = {} THEN NULL
  ELSE history[CHOOSE i \in idx : \A j \in idx : j <= i].content

LoadedMessages(history) ==
  [i \in 1..Len(history) |->
     [text |-> history[i].content,
      sender |-> IF history[i].role = "user" THEN "user" ELSE "ai"]]

session_joined(sid, history) ==
  /\ isConnected
  /\ joinRequested
  /\ joinRequested' = FALSE
  /\ isConnected' = TRUE
  /\ sessionIdRef' = sid
  /\ IF ~MountSessionData.present /\ Len(history) > 0
     THEN /\ IF LastTutor(history) # NULL /\ MountAudioMode
             THEN SetPlayback(speakChunk(Playback, LastTutor(history),
                                         MountSpeechSynthesis))
             ELSE UNCHANGED playbackVars
          /\ Commit([View EXCEPT !.messages = LoadedMessages(history),
                                 !.showChat = TRUE])
     ELSE /\ UNCHANGED playbackVars
          /\ Commit(View)
  /\ Quiet
  /\ UNCHANGED << inputText, isListening, deviceVars, sessionId, streamVars,
                  conversationMode, audioMode, isRecognitionRunningRef,
                  lastTranscriptRef, detector, timers, srvPending,
                  srvActive >>
  /\ CaptureKept
  /\ Frame1

ai_start ==
  /\ isConnected
  /\ srvPending > 0
  /\ srvPending' = srvPending - 1
  /\ srvActive' = srvActive + 1
  /\ isAIResponding' = TRUE
  /\ currentAIMessage' = Empty
  /\ Quiet
  /\ UNCHANGED << viewVars, inputText, isListening, deviceVars, sessionVars,
                  playbackVars, conversationMode, audioMode,
                  isRecognitionRunningRef, lastTranscriptRef, detector, timers,
                  joinRequested >>
  /\ CaptureKept
  /\ Frame1

ai_chunk(content) ==
  /\ isConnected
  /\ srvActive > 0
  /\ Len(currentAIMessage) + Len(content) <= MaxStreamLen
  /\ currentAIMessage' = currentAIMessage \o content
  /\ IF MountAudioMode
     THEN SetPlayback(speakChunk(Playback, content, MountSpeechSynthesis))
     ELSE UNCHANGED playbackVars
  /\ Quiet
  /\ UNCHANGED << viewVars, inputText, isListening, deviceVars, sessionVars,
                  isAIResponding, conversationMode, audioMode,
                  isRecognitionRunningRef, lastTranscriptRef, detector, timers,
                  serverVars >>
  /\ CaptureKept
  /\ Frame1

\* const delay = audioMode ? 1500 : 500
SettleDelay(audio) == IF audio THEN 1500 ELSE 500

\* the delay as the ai_complete listener computes it, from the audioMode of
\* the render it was created in
ScheduledSettleDelay == SettleDelay(MountAudioMode)

ai_complete(fullResponse) ==
  /\ isConnected
  /\ srvActive > 0
  /\ srvActive' = srvActive - 1
  /\ isAIResponding' = FALSE
  /\ currentAIMessage' = Empty
  /\ Commit([View EXCEPT !.messages = Append(@, [text |-> fullResponse,
                                                  sender |-> "ai"])])
  /\ IF MountConversationMode /\ MountRecognition # NULL
        /\ ~MountIsConversationLocked
     THEN /\ timers["settle"] < MaxTimers
          /\ timers' = [timers EXCEPT !["settle"] = @ + 1]
     ELSE UNCHANGED timers
  /\ Quiet
  /\ UNCHANGED << inputText, isListening, deviceVars, sessionVars,
                  playbackVars, conversationMode, audioMode,
                  isRecognitionRunningRef, lastTranscriptRef, detector,
                  srvPending, joinRequested >>
  /\ CaptureKept
  /\ Frame1

\* the 'error' event also ends conversation mode and listening
errorEndsMode ==
  /\ isConnected
  /\ srvPending + srvActive > 0
  /\ IF srvActive > 0
     THEN srvActive' = srvActive - 1 /\ UNCHANGED srvPending
     ELSE srvPending' = srvPending - 1 /\ UNCHANGED srvActive
  /\ isAIResponding' = FALSE
  /\ conversationMode' = FALSE
  /\ isListening' = FALSE
  /\ notice' = "error"
  /\ sendResult' = "none"
  /\ lastStart' = "none"
  /\ emitted' = << >>
  /\ UNCHANGED << viewVars, inputText, deviceVars, sessionVars,
                  currentAIMessage, playbackVars, audioMode,
                  isRecognitionRunningRef, lastTranscriptRef, detector, timers,
                  joinRequested >>
  /\ CaptureKept
  /\ Frame1

\* the 'error' event; the responder gives up the request it was serving
error ==
  /\ isConnected
  /\ srvPending + srvActive > 0
  /\ IF srvActive > 0
     THEN srvActive' = srvActive - 1 /\ UNCHANGED srvPending
     ELSE srvPending' = srvPending - 1 /\ UNCHANGED srvActive
  /\ isAIResponding' = FALSE
  /\ notice' = "error"
  /\ sendResult' = "none"
  /\ lastStart' = "none"
  /\ emitted' = << >>
  /\ UNCHANGED << viewVars, inputText, isListening, deviceVars, sessionVars,
                  currentAIMessage, playbackVars, conversationMode, audioMode,
                  isRecognitionRunningRef, lastTranscriptRef, detector, timers,
                  joinRequested >>
  /\ CaptureKept
  /\ Frame1

disconnect ==
  /\ isConnected
  /\ isConnected' = FALSE
  /\ Quiet
  /\ UNCHANGED << viewVars, inputText, isListening, deviceVars, sessionId,
                  sessionIdRef, streamVars, playbackVars, conversationMode,
                  audioMode, isRecognitionRunningRef, lastTranscriptRef,
                  detector, timers, serverVars >>
  /\ CaptureKept
  /\ Frame1

\* ------------------------------------- the playback sequencer on its own
\* speakChunk of a render that holds the synthesiser
CallSpeakChunk(text) ==
  /\ Len(enqLog) < MaxSegments
  /\ SetPlayback(speakChunk(Playback, text, speechSynthesis))
  /\ Quiet
  /\ UNCHANGED << viewVars, inputText, isListening, deviceVars, sessionVars, streamVars, conversationMode, audioMode,
                  isRecognitionRunningRef, lastTranscriptRef, detector, timers,
                  serverVars >>
  /\ CaptureKept
  /\ Frame1

\* the callback of the utterance in flight runs and does not go on to the
\* next segment
UtteranceDropped ==
  /\ synth # << >>
  /\ SetPlayback([Playback EXCEPT !.synth = Tail(@)])
  /\ Quiet
  /\ UNCHANGED << viewVars, inputText, isListening, deviceVars, sessionVars, streamVars, conversationMode, audioMode,
                  isRecognitionRunningRef, lastTranscriptRef, detector, timers,
                  serverVars >>
  /\ CaptureKept
  /\ Frame1

\* the synthesiser is done with the utterance in flight and calls back
UtteranceDone ==
  /\ synth # << >>
  /\ Head(synth).kind \in { "segment", "cancelled_segment" }
  /\ SetPlayback(processNextSpeech([Playback EXCEPT !.synth = Tail(@)]))
  /\ Quiet
  /\ UNCHANGED << viewVars, inputText, isListening, deviceVars, sessionVars, streamVars, conversationMode, audioMode,
                  isRecognitionRunningRef, lastTranscriptRef, detector, timers,
                  serverVars >>
  /\ CaptureKept
  /\ Frame1

utterance_onend == UtteranceDone

utterance_onerror == UtteranceDone

\* speechSynthesis.cancel(): every utterance is taken from the synthesiser;
\* its onend or onerror callback is still to be delivered
cancel(s) ==
  [i \in DOMAIN s |->
     [s[i] EXCEPT !.kind = IF @ \in { "segment", "cancelled_segment" }
                           THEN "cancelled_segment"
                           ELSE "cancelled_manual"]]

\* the speaker button of a message: stops what is playing, or reads the
\* message aloud outside the queue
handleSpeak(text) ==
  /\ IF speechSynthesis = NULL
     THEN /\ notice' = "unsupported"
          /\ UNCHANGED playbackVars
     ELSE /\ notice' = "none"
          /\ IF isSpeaking
             THEN SetPlayback([Playback EXCEPT !.synth = cancel(@),
                                               !.q = << >>,
                                               !.ref = FALSE,
                                               !.st = FALSE])
             ELSE /\ Len(synth) < MaxSegments
                  /\ SetPlayback([Playback EXCEPT
                        !.synth = Append(@, [kind |-> "manual",
                                             text |-> text])])
  /\ sendResult' = "none"
  /\ lastStart' = "none"
  /\ emitted' = << >>
  /\ UNCHANGED << viewVars, inputText, isListening, deviceVars, sessionVars, streamVars, conversationMode, audioMode,
                  isRecognitionRunningRef, lastTranscriptRef, detector, timers,
                  serverVars >>
  /\ CaptureKept
  /\ Frame1

\* onstart of the utterance handleSpeak handed over
manual_onstart ==
  /\ synth # << >>
  /\ Head(synth).kind = "manual"
  /\ SetPlayback([Playback EXCEPT !.synth[1].kind = "speaking_manual",
                                  !.st = TRUE])
  /\ Quiet
  /\ UNCHANGED << viewVars, inputText, isListening, deviceVars, sessionVars, streamVars, conversationMode, audioMode,
                  isRecognitionRunningRef, lastTranscriptRef, detector, timers,
                  serverVars >>
  /\ CaptureKept
  /\ Frame1

\* onend or onerror of the utterance handleSpeak handed over
manual_done ==
  /\ synth # << >>
  /\ Head(synth).kind \in { "manual", "speaking_manual", "cancelled_manual" }
  /\ SetPlayback([Playback EXCEPT !.synth = Tail(@), !.st = FALSE])
  /\ Quiet
  /\ UNCHANGED << viewVars, inputText, isListening, deviceVars, sessionVars, streamVars, conversationMode, audioMode,
                  isRecognitionRunningRef, lastTranscriptRef, detector, timers,
                  serverVars >>
  /\ CaptureKept
  /\ Frame1

Replay ==
  \/ \E t \in SegmentTexts : handleSpeak(t)
  \/ manual_onstart
  \/ manual_done

Sequencer ==
  \/ \E t \in SegmentTexts : CallSpeakChunk(t)
  \/ utterance_onend
  \/ utterance_onerror

\* ------------------------------------------------------- the component
UserChat ==
  \/ \E t \in TypedTexts \cup { Empty } : TypeInput(t)
  \/ ClickSend
  \/ PressEnter

UserMode ==
  \/ toggleConversationMode
  \/ ToggleAudio

UserView ==
  \/ \E b \in BOOLEAN : SetShowChat(b)
  \/ \E sd \in PdfSessions \cup { NoSessionData } : SetSessionData(sd)

Recogniser ==
  \/ onspeechstart
  \/ \E f \in SpokenTexts \cup { Empty }, i \in SpokenTexts \cup { Empty } :
        (f # Empty \/ i # Empty) /\ onresult(f, i)
  \/ onspeechend
  \/ onend

RecogniserError == \E k \in ErrorKinds : onerror(k)

Timers == \E k \in TimerKinds : TimerFire(k)

Link ==
  \/ connect
  \/ \E sid \in SocketSessionIds : connected(sid)
  \/ \E sid \in SocketSessionIds, h \in HistoryLists : session_joined(sid, h)
  \/ disconnect

Stream ==
  \/ ai_start
  \/ \E c \in ChunkTexts : ai_chunk(c)
  \/ \E r \in ResponseTexts : ai_complete(r)
  \/ error

\* ========================================================= part_002
\* the messages list, the streamed text and the interim transcript of this
\* component are display state no statement below reads; they are left out

\* values of the first render, seen by the callbacks of its mount effect
Mount2ConversationMode == TRUE
Mount2AudioMode        == FALSE
Mount2IsAIResponding   == FALSE
Mount2Recognition      == NULL
Mount2InputText        == Empty
Mount2SessionId        == ""

\* what the later renders hold
recognition2 == "recognitionInstance"
socketRef2   == "newSocket"

AudioClips == { NULL, "clip" }
\* the urls enqueueAudio is called with when the queue is driven directly
QueuedClips == { "clip", "clip2" }
\* currentAudioRef.current = null; an element is named by a number from 1
NoElement == 0
RestartKinds2 == { "onendRestart", "errorRetry", "settle" }

Init2 ==
  /\ inputText2 = Empty
  /\ isListening2 = FALSE
  /\ showChat2 = FALSE
  /\ sessionId2 = ""
  /\ sessionIdRef2 = ""
  /\ isConnected2 = FALSE
  /\ isAIResponding2 = FALSE
  /\ conversationMode2 = TRUE
  /\ isRecognitionRunningRef2 = FALSE
  /\ lastTranscriptRef2 = Empty
  /\ micEnabledRef2 = FALSE
  /\ audioMode2 = FALSE
  /\ audioModeRef2 = FALSE
  /\ audioQueueRef2 = << >>
  /\ currentAudioRef2 = NoElement
  /\ isSpeaking2 = FALSE
  /\ audioElems2 = << >>
  /\ detector2 = "idle"
  /\ silence2 = [latest |-> FALSE, old |-> 0]
  /\ restart2 = [k \in RestartKinds2 |-> 0]
  /\ joinRequested2 = FALSE
  /\ srvPending2 = 0
  /\ srvActive2 = 0
  /\ emitted2 = << >>
  /\ sendResult2 = "none"
  /\ notice2 = "none"
  /\ lastStart2 = "none"
  /\ cycle2 = [open |-> FALSE, finals |-> "none", sends |-> "none"]

\* ------------------------------------------------------------- audio clips
Audio2 == [modeRef |-> audioModeRef2, queue |-> audioQueueRef2,
           current |-> currentAudioRef2, speaking |-> isSpeaking2,
           elems |-> audioElems2]

\* pause() of the current element, whose play() promise, if pending, is
\* left to settle
stopCurrentAudio(a) ==
  IF a.current # NoElement
  THEN [a EXCEPT !.elems[a.current].paused = TRUE,
                 !.current = NoElement, !.speaking = FALSE]
  ELSE [a EXCEPT !.speaking = FALSE]

\* the newest url of the queue is taken, not the oldest
playNextAudioNewest(a) ==
  IF ~a.modeRef THEN a
  ELSE IF a.current # NoElement THEN a
  ELSE IF a.queue = << >> THEN [a EXCEPT !.speaking = FALSE]
  ELSE [a EXCEPT !.current = Len(a.elems) + 1,
                 !.queue = SubSeq(a.queue, 1, Len(a.queue) - 1),
                 !.elems = Append(@, [src |-> a.queue[Len(a.queue)],
                                      play |-> "pending", paused |-> FALSE,
                                      ended |-> FALSE])]

\* new Audio(nextUrl), named by its place among the elements created
playNextAudio(a) ==
  IF ~a.modeRef THEN a
  ELSE IF a.current # NoElement THEN a
  ELSE IF a.queue = << >> THEN [a EXCEPT !.speaking = FALSE]
  ELSE [a EXCEPT !.current = Len(a.elems) + 1, !.queue = Tail(a.queue),
                 !.elems = Append(@, [src |-> Head(a.queue),
                                      play |-> "pending", paused |-> FALSE,
                                      ended |-> FALSE])]

\* clears the current element whichever element completed
handleCompleteAnyElement(a, id) ==
  LET a1 == [a EXCEPT !.current = NoElement]
      a2 == IF a1.queue = << >> THEN [a1 EXCEPT !.speaking = FALSE] ELSE a1
  IN playNextAudio(a2)

\* handleComplete of the element id
handleComplete(a, id) ==
  LET a1 == IF a.current = id THEN [a EXCEPT !.current = NoElement] ELSE a
      a2 == IF a1.queue = << >> THEN [a1 EXCEPT !.speaking = FALSE] ELSE a1
  IN playNextAudio(a2)

enqueueAudio(a, url) ==
  IF url = NULL THEN a
  ELSE LET a1 == [a EXCEPT !.queue = Append(@, url)] IN
       IF a1.modeRef THEN playNextAudio(a1) ELSE a1

\* useEffect([audioMode]), run by the render that follows a change of mode
AudioModeEffect(a, mode) ==
  LET a1 == [a EXCEPT !.modeRef = mode] IN
  IF ~mode THEN stopCurrentAudio([a1 EXCEPT !.queue = << >>])
  ELSE playNextAudio(a1)

SetAudio2(a) ==
  /\ audioModeRef2' = a.modeRef
  /\ audioQueueRef2' = a.queue
  /\ currentAudioRef2' = a.current
  /\ isSpeaking2' = a.speaking
  /\ audioElems2' = a.elems

audioVars2 == << audioModeRef2, audioQueueRef2, currentAudioRef2, isSpeaking2,
                audioElems2 >>

\* --------------------------------------------------- handleSendMessage
HandleSendMessage2(messageText, inText, sid) ==
  LET textToSend == OrElse(messageText, inText)
      activeSocket == socketRef2
      activeSessionId == IF sessionIdRef2 # "" THEN sessionIdRef2 ELSE sid
      noLink == activeSocket = NULL \/ activeSessionId = ""
  IN IF Trim(textToSend) = Empty \/ noLink
     THEN [emit |-> FALSE, alert |-> noLink, blank |-> Trim(textToSend) = Empty,
           text |-> textToSend, session |-> activeSessionId]
     ELSE [emit |-> TRUE, alert |-> FALSE, blank |-> FALSE,
           text |-> textToSend, session |-> activeSessionId]

\* one more final result or user_message in the open capture cycle; what
\* is kept is none, one, or "many"
Counted(cyc, field) ==
  IF ~cyc.open THEN cyc
  ELSE [cyc EXCEPT ![field] = IF @ = "none" THEN "one" ELSE "many"]

\* voice: the call comes from a callback of the recogniser; cyc is the
\* capture cycle as the caller leaves it
ApplySend2(r, voice, cyc) ==
  /\ sendResult2' = SendOutcome(r)
  /\ notice2' = IF r.alert THEN "not_connected" ELSE "none"
  /\ IF r.emit
     THEN /\ srvPending2 + srvActive2 < MaxOutstanding
          /\ emitted2' = << [sessionId |-> r.session, message |-> r.text] >>
          /\ srvPending2' = srvPending2 + 1
          /\ inputText2' = Empty
          /\ showChat2' = TRUE
          /\ cycle2' = IF voice THEN Counted(cyc, "sends") ELSE cyc
     ELSE /\ emitted2' = << >>
          /\ cycle2' = cyc
          /\ UNCHANGED << srvPending2, inputText2, showChat2 >>

StartOutcome2(rec) ==
  IF rec = NULL THEN "typeerror"
  ELSE IF detector2 = "idle" THEN "started" ELSE "invalidstate"

StopDetector2 == IF detector2 = "running" THEN "stopping" ELSE detector2

Quiet2 ==
  /\ notice2' = "none"
  /\ sendResult2' = "none"
  /\ lastStart2' = "none"
  /\ emitted2' = << >>

sessionVars2 == << sessionId2, sessionIdRef2, isConnected2 >>
serverVars2  == << srvPending2, srvActive2, joinRequested2 >>
modeVars2    == << conversationMode2, audioMode2, audioVars2 >>
micVars2     == << isListening2, isRecognitionRunningRef2, micEnabledRef2,
                   detector2 >>
timerVars2   == << silence2, restart2 >>

\* ------------------------------------------------ commands of the UI layer
TypeInput2(t) ==
  /\ t # inputText2
  /\ inputText2' = t
  /\ Quiet2
  /\ UNCHANGED << showChat2, sessionVars2, isAIResponding2, modeVars2,
                  micVars2, lastTranscriptRef2, timerVars2, serverVars2,
                  cycle2 >>
  /\ Frame2

SendTyped2 ==
  /\ ApplySend2(HandleSendMessage2(Empty, inputText2, sessionId2), FALSE, cycle2)
  /\ lastStart2' = "none"
  /\ UNCHANGED << sessionVars2, isAIResponding2, modeVars2, micVars2,
                  lastTranscriptRef2, timerVars2, srvActive2, joinRequested2 >>
  /\ Frame2

ClickSend2 ==
  /\ ~(Trim(inputText2) = Empty \/ ~isConnected2 \/ isAIResponding2)
  /\ SendTyped2

PressEnter2 == SendTyped2

handleVoiceInput2 ==
  /\ IF recognition2 = NULL
     THEN /\ notice2' = "unsupported"
          /\ lastStart2' = "none"
          /\ UNCHANGED micVars2
     ELSE /\ notice2' = "none"
          /\ IF isListening2
             THEN /\ detector2' = StopDetector2
                  /\ isRecognitionRunningRef2' = FALSE
                  /\ isListening2' = FALSE
                  /\ micEnabledRef2' = FALSE
                  /\ lastStart2' = "none"
             ELSE IF ~isRecognitionRunningRef2
             THEN LET o == StartOutcome2(recognition2) IN
                  /\ lastStart2' = o
                  /\ IF o = "started"
                     THEN /\ detector2' = "running"
                          /\ isRecognitionRunningRef2' = TRUE
                          /\ isListening2' = TRUE
                          /\ micEnabledRef2' = TRUE
                     ELSE UNCHANGED micVars2
             ELSE /\ lastStart2' = "none"
                  /\ UNCHANGED micVars2
  /\ sendResult2' = "none"
  /\ emitted2' = << >>
  /\ UNCHANGED << inputText2, showChat2, sessionVars2, isAIResponding2,
                  modeVars2, lastTranscriptRef2, timerVars2, serverVars2,
                  cycle2 >>
  /\ Frame2

\* the button is on the welcome screen
toggleConversationMode2 ==
  /\ ~showChat2
  /\ IF recognition2 = NULL
     THEN /\ notice2' = "unsupported"
          /\ lastStart2' = "none"
          /\ UNCHANGED << micVars2, modeVars2 >>
     ELSE /\ notice2' = "none"
          /\ IF conversationMode2
             THEN /\ detector2' = StopDetector2
                  /\ isRecognitionRunningRef2' = FALSE
                  /\ conversationMode2' = FALSE
                  /\ audioMode2' = FALSE
                  /\ isListening2' = FALSE
                  /\ micEnabledRef2' = FALSE
                  /\ lastStart2' = "none"
                  /\ IF audioMode2
                     THEN SetAudio2(AudioModeEffect(Audio2, FALSE))
                     ELSE UNCHANGED audioVars2
             ELSE IF ~isRecognitionRunningRef2
             THEN LET o == StartOutcome2(recognition2) IN
                  /\ lastStart2' = o
                  /\ IF o = "started"
                     THEN /\ detector2' = "running"
                          /\ isRecognitionRunningRef2' = TRUE
                          /\ conversationMode2' = TRUE
                          /\ audioMode2' = TRUE
                          /\ isListening2' = TRUE
                          /\ micEnabledRef2' = TRUE
                          /\ IF ~audioMode2
                             THEN SetAudio2(AudioModeEffect(Audio2, TRUE))
                             ELSE UNCHANGED audioVars2
                     ELSE UNCHANGED << micVars2, modeVars2 >>
             ELSE /\ lastStart2' = "none"
                  /\ UNCHANGED << micVars2, modeVars2 >>
  /\ sendResult2' = "none"
  /\ emitted2' = << >>
  /\ UNCHANGED << inputText2, showChat2, sessionVars2, isAIResponding2,
                  lastTranscriptRef2, timerVars2, serverVars2, cycle2 >>
  /\ Frame2

\* the audio button of the welcome screen, disabled while !conversationMode
ToggleAudio2 ==
  /\ ~showChat2
  /\ conversationMode2
  /\ audioMode2' = ~audioMode2
  /\ SetAudio2(AudioModeEffect(Audio2, ~audioMode2))
  /\ Quiet2
  /\ UNCHANGED << inputText2, showChat2, sessionVars2, isAIResponding2,
                  conversationMode2, micVars2, lastTranscriptRef2, timerVars2,
                  serverVars2, cycle2 >>
  /\ Frame2

SetShowChat2(b) ==
  /\ showChat2 # b
  /\ showChat2' = b
  /\ Quiet2
  /\ UNCHANGED << inputText2, sessionVars2, isAIResponding2, modeVars2,
                  micVars2, lastTranscriptRef2, timerVars2, serverVars2,
                  cycle2 >>
  /\ Frame2

\* --------------------------------------------- callbacks of the recogniser
onresult2(finalText, interimText) ==
  /\ detector2 \in { "running", "stopping" }
  /\ LET currentText == OrElse(finalText, interimText) IN
     IF finalText # Empty /\ Mount2ConversationMode
     THEN /\ ApplySend2(HandleSendMessage2(finalText, Mount2InputText,
                                           Mount2SessionId), TRUE,
                         Counted(cycle2, "finals"))
          /\ lastTranscriptRef2' = Empty
     ELSE /\ lastTranscriptRef2' = IF currentText # Empty THEN currentText
                                   ELSE lastTranscriptRef2
          /\ sendResult2' = "none"
          /\ notice2' = "none"
          /\ emitted2' = << >>
          /\ UNCHANGED << srvPending2, inputText2, showChat2, cycle2 >>
  /\ lastStart2' = "none"
  /\ UNCHANGED << sessionVars2, isAIResponding2, modeVars2, micVars2,
                  timerVars2, srvActive2, joinRequested2 >>
  /\ Frame2

\* sets a new 500 ms timer and makes silenceTimer name it
onspeechend2 ==
  /\ detector2 = "running"
  /\ silence2.latest => silence2.old < MaxOldTimers
  /\ silence2' = [latest |-> TRUE,
                  old |-> IF silence2.latest THEN silence2.old + 1
                          ELSE silence2.old]
  /\ Quiet2
  /\ UNCHANGED << inputText2, showChat2, sessionVars2, isAIResponding2,
                  modeVars2, micVars2, lastTranscriptRef2, restart2,
                  serverVars2, cycle2 >>
  /\ Frame2

\* the callback of an end-of-speech timer
SilenceTimerFire(isLatest) ==
  /\ IF isLatest THEN silence2.latest ELSE silence2.old > 0
  /\ silence2' = IF isLatest THEN [silence2 EXCEPT !.latest = FALSE]
                 ELSE [silence2 EXCEPT !.old = @ - 1]
  /\ LET textToSend == Trim(lastTranscriptRef2) IN
     IF textToSend # Empty /\ Mount2ConversationMode
     THEN /\ ApplySend2(HandleSendMessage2(textToSend, Mount2InputText,
                                           Mount2SessionId), TRUE, cycle2)
          /\ lastTranscriptRef2' = Empty
     ELSE /\ sendResult2' = "none"
          /\ notice2' = "none"
          /\ emitted2' = << >>
          /\ UNCHANGED << srvPending2, inputText2, showChat2, cycle2,
                          lastTranscriptRef2 >>
  /\ lastStart2' = "none"
  /\ UNCHANGED << sessionVars2, isAIResponding2, modeVars2, micVars2,
                  restart2, srvActive2, joinRequested2 >>
  /\ Frame2

\* clearTimeout(silenceTimer) reaches the latest timer only
onspeechstart2 ==
  /\ detector2 = "running"
  /\ silence2' = [silence2 EXCEPT !.latest = FALSE]
  /\ lastTranscriptRef2' = Empty
  /\ cycle2' = [open |-> TRUE, finals |-> "none", sends |-> "none"]
  /\ Quiet2
  /\ UNCHANGED << inputText2, showChat2, sessionVars2, isAIResponding2,
                  modeVars2, micVars2, restart2, serverVars2 >>
  /\ Frame2

onerror2(kind) ==
  /\ detector2 \in { "running", "stopping" }
  /\ detector2' = "stopping"
  /\ IF kind = "no-speech" \/ kind = "aborted"
     THEN /\ IF Mount2ConversationMode
             THEN /\ restart2["errorRetry"] < MaxTimers
                  /\ restart2' = [restart2 EXCEPT !["errorRetry"] = @ + 1]
             ELSE UNCHANGED restart2
          /\ UNCHANGED << conversationMode2, isListening2 >>
     ELSE /\ conversationMode2' = FALSE
          /\ isListening2' = FALSE
          /\ UNCHANGED restart2
  /\ Quiet2
  /\ UNCHANGED << inputText2, showChat2, sessionVars2, isAIResponding2,
                  audioMode2, audioVars2, isRecognitionRunningRef2,
                  micEnabledRef2, lastTranscriptRef2, silence2, serverVars2,
                  cycle2 >>
  /\ Frame2

onend2 ==
  /\ detector2 \in { "running", "stopping" }
  /\ detector2' = "idle"
  /\ isRecognitionRunningRef2' = FALSE
  /\ IF Mount2ConversationMode /\ micEnabledRef2 /\ ~Mount2IsAIResponding
     THEN /\ restart2["onendRestart"] < MaxTimers
          /\ restart2' = [restart2 EXCEPT !["onendRestart"] = @ + 1]
          /\ UNCHANGED isListening2
     ELSE /\ isListening2' = FALSE
          /\ UNCHANGED restart2
  /\ Quiet2
  /\ UNCHANGED << inputText2, showChat2, sessionVars2, isAIResponding2,
                  modeVars2, micEnabledRef2, lastTranscriptRef2, silence2,
                  serverVars2, cycle2 >>
  /\ Frame2

\* the callback of a restart timer.  recognition?.start() on null neither
\* starts nor throws, so the statement after it runs
RestartTimerFire2(k) ==
  /\ restart2[k] > 0
  /\ restart2' = [restart2 EXCEPT ![k] = @ - 1]
  /\ IF k = "errorRetry"
     THEN LET o == StartOutcome2(Mount2Recognition) IN
          /\ lastStart2' = IF Mount2Recognition = NULL THEN "none" ELSE o
          /\ detector2' = IF o = "started" THEN "running" ELSE detector2
          /\ UNCHANGED << isRecognitionRunningRef2, isListening2 >>
     ELSE IF ~isRecognitionRunningRef2
     THEN LET o == StartOutcome2(Mount2Recognition) IN
          IF k = "onendRestart"
          THEN \* recognition?.start(); isRecognitionRunningRef.current = true
               /\ lastStart2' = IF Mount2Recognition = NULL THEN "none" ELSE o
               /\ detector2' = IF o = "started" THEN "running" ELSE detector2
               /\ isRecognitionRunningRef2' =
                    (Mount2Recognition = NULL \/ o = "started")
               /\ UNCHANGED isListening2
          ELSE \* recognition.start(); ... = true; setIsListening(true)
               /\ lastStart2' = o
               /\ detector2' = IF o = "started" THEN "running" ELSE detector2
               /\ isRecognitionRunningRef2' = (o = "started")
               /\ isListening2' = IF o = "started" THEN TRUE ELSE isListening2
     ELSE /\ lastStart2' = "none"
          /\ UNCHANGED << detector2, isRecognitionRunningRef2, isListening2 >>
  /\ notice2' = "none"
  /\ sendResult2' = "none"
  /\ emitted2' = << >>
  /\ UNCHANGED << inputText2, showChat2, sessionVars2, isAIResponding2,
                  modeVars2, micEnabledRef2, lastTranscriptRef2, silence2,
                  serverVars2, cycle2 >>
  /\ Frame2

\* ------------------------------------------------ listeners of the socket
connect2 ==
  /\ ~isConnected2
  /\ isConnected2' = TRUE
  /\ Quiet2
  /\ UNCHANGED << inputText2, showChat2, sessionId2, sessionIdRef2,
                  isAIResponding2, modeVars2, micVars2, lastTranscriptRef2,
                  timerVars2, serverVars2, cycle2 >>
  /\ Frame2

\* stores the id in the sessionId state only and asks to join
connected2(sid) ==
  /\ isConnected2
  /\ ~joinRequested2
  /\ sessionId2' = sid
  /\ joinRequested2' = TRUE
  /\ Quiet2
  /\ UNCHANGED << inputText2, showChat2, sessionIdRef2, isConnected2,
                  isAIResponding2, modeVars2, micVars2, lastTranscriptRef2,
                  timerVars2, srvPending2, srvActive2, cycle2 >>
  /\ Frame2

session_joined2(sid) ==
  /\ isConnected2
  /\ joinRequested2
  /\ joinRequested2' = FALSE
  /\ isConnected2' = TRUE
  /\ sessionIdRef2' = sid
  /\ Quiet2
  /\ UNCHANGED << inputText2, showChat2, sessionId2, isAIResponding2,
                  modeVars2, micVars2, lastTranscriptRef2, timerVars2,
                  srvPending2, srvActive2, cycle2 >>
  /\ Frame2

ai_start2 ==
  /\ isConnected2
  /\ srvPending2 > 0
  /\ srvPending2' = srvPending2 - 1
  /\ srvActive2' = srvActive2 + 1
  /\ isAIResponding2' = TRUE
  /\ Quiet2
  /\ UNCHANGED << inputText2, showChat2, sessionVars2, modeVars2, micVars2,
                  lastTranscriptRef2, timerVars2, joinRequested2,
                  cycle2 >>
  /\ Frame2

\* audioUrl is what buildAudioUrl makes of the audio the event carries
ai_complete2(audioUrl) ==
  /\ isConnected2
  /\ srvActive2 > 0
  /\ srvActive2' = srvActive2 - 1
  /\ isAIResponding2' = FALSE
  /\ IF audioUrl # NULL /\ Mount2AudioMode
     THEN SetAudio2(enqueueAudio(Audio2, audioUrl))
     ELSE UNCHANGED audioVars2
  /\ IF Mount2ConversationMode /\ Mount2Recognition # NULL /\ micEnabledRef2
     THEN /\ restart2["settle"] < MaxTimers
          /\ restart2' = [restart2 EXCEPT !["settle"] = @ + 1]
     ELSE UNCHANGED restart2
  /\ Quiet2
  /\ UNCHANGED << inputText2, showChat2, sessionVars2, conversationMode2,
                  audioMode2, micVars2, lastTranscriptRef2, silence2,
                  srvPending2, joinRequested2, cycle2 >>
  /\ Frame2

error2 ==
  /\ isConnected2
  /\ srvPending2 + srvActive2 > 0
  /\ IF srvActive2 > 0
     THEN srvActive2' = srvActive2 - 1 /\ UNCHANGED srvPending2
     ELSE srvPending2' = srvPending2 - 1 /\ UNCHANGED srvActive2
  /\ isAIResponding2' = FALSE
  /\ notice2' = "error"
  /\ sendResult2' = "none"
  /\ lastStart2' = "none"
  /\ emitted2' = << >>
  /\ UNCHANGED << inputText2, showChat2, sessionVars2, modeVars2, micVars2,
                  lastTranscriptRef2, timerVars2, joinRequested2,
                  cycle2 >>
  /\ Frame2

disconnect2 ==
  /\ isConnected2
  /\ isConnected2' = FALSE
  /\ Quiet2
  /\ UNCHANGED << inputText2, showChat2, sessionId2, sessionIdRef2,
                  isAIResponding2, modeVars2, micVars2, lastTranscriptRef2,
                  timerVars2, serverVars2, cycle2 >>
  /\ Frame2

\* ---------------------------------------------- the audio queue on its own
\* enqueueAudio called with the url of a response
CallEnqueueAudio(url) ==
  /\ Len(audioElems2) + Len(audioQueueRef2) < MaxClips
  /\ SetAudio2(enqueueAudio(Audio2, url))
  /\ Quiet2
  /\ UNCHANGED << inputText2, showChat2, sessionVars2, isAIResponding2,
                  conversationMode2, audioMode2, micVars2, lastTranscriptRef2,
                  timerVars2, serverVars2, cycle2 >>
  /\ Frame2

\* the play() promise of element id is fulfilled. Whether a promise that is
\* pending at pause() is rejected or still fulfilled is the browser's
\* choice: the source cancels nothing.
audio_play_then(id) ==
  /\ audioElems2[id].play = "pending"
  /\ ~audioElems2[id].ended
  /\ SetAudio2([Audio2 EXCEPT !.elems[id].play = "fulfilled",
                              !.speaking = TRUE])
  /\ Quiet2
  /\ UNCHANGED << inputText2, showChat2, sessionVars2, isAIResponding2,
                  conversationMode2, audioMode2, micVars2, lastTranscriptRef2,
                  timerVars2, serverVars2, cycle2 >>
  /\ Frame2

\* the play() promise of element id is rejected
audio_play_catch(id) ==
  /\ audioElems2[id].play = "pending"
  /\ SetAudio2(handleComplete([Audio2 EXCEPT !.elems[id].play = "rejected"],
                              id))
  /\ Quiet2
  /\ UNCHANGED << inputText2, showChat2, sessionVars2, isAIResponding2,
                  conversationMode2, audioMode2, micVars2, lastTranscriptRef2,
                  timerVars2, serverVars2, cycle2 >>
  /\ Frame2

\* element id played to its end
audio_onended(id) ==
  /\ audioElems2[id].play = "fulfilled"
  /\ ~audioElems2[id].paused
  /\ ~audioElems2[id].ended
  /\ SetAudio2(handleComplete([Audio2 EXCEPT !.elems[id].ended = TRUE], id))
  /\ Quiet2
  /\ UNCHANGED << inputText2, showChat2, sessionVars2, isAIResponding2,
                  conversationMode2, audioMode2, micVars2, lastTranscriptRef2,
                  timerVars2, serverVars2, cycle2 >>
  /\ Frame2

\* element id failed to load or decode
audio_onerror(id) ==
  /\ ~audioElems2[id].ended
  /\ SetAudio2(handleComplete([Audio2 EXCEPT !.elems[id].ended = TRUE], id))
  /\ Quiet2
  /\ UNCHANGED << inputText2, showChat2, sessionVars2, isAIResponding2,
                  conversationMode2, audioMode2, micVars2, lastTranscriptRef2,
                  timerVars2, serverVars2, cycle2 >>
  /\ Frame2

AudioQueue2 ==
  \/ \E url \in QueuedClips : CallEnqueueAudio(url)
  \/ ToggleAudio2
  \/ toggleConversationMode2
  \/ \E id \in DOMAIN audioElems2 : audio_play_then(id)
  \/ \E id \in DOMAIN audioElems2 : audio_play_catch(id)
  \/ \E id \in DOMAIN audioElems2 : audio_onended(id)
  \/ \E id \in DOMAIN audioElems2 : audio_onerror(id)

\* ---------------------------------------------------------- usePdfUploader
DroppedFiles == { [name |-> "a.pdf", type |-> "application/pdf"],
                  [name |-> "n.txt", type |-> "text/plain"] }

\* what a fetch comes back with: the promise rejects ("throws"), the status
\* is not ok, the body says success false, or success true
FetchOutcomes == { "throws", "not_ok", "not_success", "success" }

\* the bodies the two endpoints answer with
UploadPdfResult(o) == [outcome |-> o, sessionId |-> "u1"]
StartConversationResult(o) ==
  [outcome |-> o, sessionId |-> "p1", message |-> <<"i">>]

InitUploader ==
  /\ isUploading = FALSE
  /\ uploadStatus = ""
  /\ uploadError = NULL
  /\ dropHandlerIsUploading = FALSE
  /\ uploads = << >>
  /\ requests = << >>
  /\ delivered = << >>
  /\ dropResult = "none"

\* the drop listener is the one registered before the drop until the
\* effect re-registers it
RegisteredLater == dropHandlerIsUploading

\* setIsUploading(true) runs inside the 'drop' event, a discrete event:
\* React 18 renders and runs the effects of that update before the task of
\* the event ends, so the listener holds the new handleFileDrop (isUploading
\* true) before any other event is dispatched
RegisteredAfterAccept == TRUE

\* handleDrop of the registered listener, with e.dataTransfer.files, and
\* the part of handleFileDrop that runs before its first await
handleDrop(files) ==
  /\ IF files = << >>
     THEN /\ dropResult' = "no_files"
          /\ UNCHANGED << isUploading, uploadStatus, uploadError,
                          dropHandlerIsUploading, uploads >>
     ELSE LET file == files[1] IN
          IF dropHandlerIsUploading
          THEN /\ dropResult' = "ignored"
               /\ UNCHANGED << isUploading, uploadStatus, uploadError,
                               dropHandlerIsUploading, uploads >>
          ELSE IF file.type # "application/pdf"
          THEN /\ dropResult' = "rejected"
               /\ uploadError' = "Only PDF files are supported."
               /\ UNCHANGED << isUploading, uploadStatus,
                               dropHandlerIsUploading, uploads >>
          ELSE /\ Len(uploads) < MaxUploads
               /\ dropResult' = "accepted"
               /\ isUploading' = TRUE
               /\ uploadStatus' = "Processing"
               /\ uploadError' = NULL
               /\ dropHandlerIsUploading' = RegisteredAfterAccept
               /\ uploads' = Append(uploads, [file |-> file, pc |-> "extract",
                                              upload |-> "none",
                                              start |-> "none"])
  /\ UNCHANGED << requests, delivered >>
  /\ FrameUploader

\* catch without finally: isUploading is left as it is
UploadFailedNoFinally(id, u) ==
  /\ uploadError' = "failed"
  /\ uploadStatus' = "Operation failed"
  /\ uploads' = [u EXCEPT ![id].pc = "failed"]
  /\ UNCHANGED isUploading

\* the failure is not reported: finally only
UploadFailedQuietly(id, u) ==
  /\ isUploading' = FALSE
  /\ uploads' = [u EXCEPT ![id].pc = "failed"]
  /\ UNCHANGED << uploadError, uploadStatus >>

\* catch and finally of the call id; u is uploads with what came back
UploadFailed(id, u) ==
  /\ uploadError' = "failed"
  /\ uploadStatus' = "Operation failed"
  /\ isUploading' = FALSE
  /\ uploads' = [u EXCEPT ![id].pc = "failed"]

\* await extractPdfText(file) settles; then the first fetch is issued
extractPdfTextSettles(id, ok) ==
  /\ uploads[id].pc = "extract"
  /\ IF ok
     THEN /\ uploadStatus' = "Uploading text to server"
          /\ requests' = Append(requests, [api |-> "upload-pdf", call |-> id,
                                           sessionId |-> ""])
          /\ uploads' = [uploads EXCEPT ![id].pc = "upload"]
          /\ UNCHANGED << isUploading, uploadError >>
     ELSE /\ UploadFailed(id, uploads)
          /\ UNCHANGED requests
  /\ dropResult' = "none"
  /\ UNCHANGED << dropHandlerIsUploading, delivered >>
  /\ FrameUploader

\* the second fetch is issued whatever the first one came back with
uploadPdfSettlesAnyOutcome(id, result) ==
  /\ uploads[id].pc = "upload"
  /\ uploadStatus' = "Starting conversation"
  /\ requests' = Append(requests,
                        [api |-> "start-conversation", call |-> id,
                         sessionId |-> result.sessionId])
  /\ uploads' = [uploads EXCEPT ![id].pc = "start",
                                ![id].upload = result.outcome]
  /\ dropResult' = "none"
  /\ UNCHANGED << isUploading, uploadError, dropHandlerIsUploading,
                  delivered >>
  /\ FrameUploader

\* the fetch of /api/upload-pdf settles; then the second fetch is issued
uploadPdfSettles(id, result) ==
  /\ uploads[id].pc = "upload"
  /\ IF result.outcome = "success"
     THEN /\ uploadStatus' = "Starting conversation"
          /\ requests' = Append(requests,
                                [api |-> "start-conversation", call |-> id,
                                 sessionId |-> result.sessionId])
          /\ uploads' = [uploads EXCEPT ![id].pc = "start",
                                        ![id].upload = result.outcome]
          /\ UNCHANGED << isUploading, uploadError >>
     ELSE /\ UploadFailed(id, [uploads EXCEPT ![id].upload = result.outcome])
          /\ UNCHANGED requests
  /\ dropResult' = "none"
  /\ UNCHANGED << dropHandlerIsUploading, delivered >>
  /\ FrameUploader

\* the fetch of /api/start-conversation settles
startConversationSettles(id, result) ==
  /\ uploads[id].pc = "start"
  /\ IF result.outcome = "success"
     THEN /\ delivered' = Append(delivered,
                                 [call |-> id,
                                  sessionId |-> result.sessionId,
                                  filename |-> uploads[id].file.name,
                                  initialMessage |-> result.message])
          /\ isUploading' = FALSE
          /\ uploads' = [uploads EXCEPT ![id].pc = "done",
                                        ![id].start = result.outcome]
          /\ UNCHANGED << uploadStatus, uploadError >>
     ELSE /\ UploadFailed(id, [uploads EXCEPT ![id].start = result.outcome])
          /\ UNCHANGED delivered
  /\ dropResult' = "none"
  /\ UNCHANGED << dropHandlerIsUploading, requests >>
  /\ FrameUploader

\* useEffect([handleFileDrop]) after a render with another isUploading: the
\* listener is removed and registered again with the new handleFileDrop
DropListenerEffect ==
  /\ dropHandlerIsUploading # isUploading
  /\ dropHandlerIsUploading' = isUploading
  /\ dropResult' = "none"
  /\ UNCHANGED << isUploading, uploadStatus, uploadError, uploads, requests,
                  delivered >>
  /\ FrameUploader

UploadSettles ==
  \/ \E id \in DOMAIN uploads, ok \in BOOLEAN : extractPdfTextSettles(id, ok)
  \/ \E id \in DOMAIN uploads, o \in FetchOutcomes :
        uploadPdfSettles(id, UploadPdfResult(o))
  \/ \E id \in DOMAIN uploads, o \in FetchOutcomes :
        startConversationSettles(id, StartConversationResult(o))

NextUploader ==
  \/ \E files \in { << >> } \cup { << f >> : f \in DroppedFiles } :
        handleDrop(files)
  \/ UploadSettles
  \/ DropListenerEffect

\* ================================================== specifications
UserChat2 ==
  \/ \E t \in TypedTexts \cup { Empty } : TypeInput2(t)
  \/ ClickSend2
  \/ PressEnter2

Recogniser2 ==
  \/ onspeechstart2
  \/ \E f \in SpokenTexts \cup { Empty }, i \in SpokenTexts \cup { Empty } :
        (f # Empty \/ i # Empty) /\ onresult2(f, i)
  \/ onspeechend2
  \/ \E l \in BOOLEAN : SilenceTimerFire(l)
  \/ onend2
  \/ \E k \in RestartKinds2 : RestartTimerFire2(k)

Link2 ==
  \/ connect2
  \/ \E sid \in SocketSessionIds : connected2(sid)
  \/ \E sid \in SocketSessionIds : session_joined2(sid)
  \/ disconnect2

Stream2 ==
  \/ ai_start2
  \/ \E a \in AudioClips : ai_complete2(a)
  \/ error2

Init == Init1 /\ Init2 /\ InitUploader /\ variant = "part_001"

\* the conversation: typing, tap-to-talk, the recogniser, the socket and
\* the streamed response
Next ==
  \/ UserChat
  \/ handleVoiceInput
  \/ Recogniser
  \/ Timers
  \/ Link
  \/ Stream

Spec == Init /\ [][Next]_vars

InitServerAudio == Init1 /\ Init2 /\ InitUploader /\ variant = "part_002"

NextServerAudio ==
  \/ UserChat2
  \/ handleVoiceInput2
  \/ Recogniser2
  \/ Link2
  \/ Stream2

SpecServerAudio == InitServerAudio /\ [][NextServerAudio]_vars

\* the documents come and go while the user types and talks; no response is
\* streamed
NextSession ==
  \/ UserChat
  \/ UserView
  \/ handleVoiceInput
  \/ Recogniser
  \/ Timers
  \/ Link

SpecSession == Init /\ [][NextSession]_vars

\* the page mounts one of the two components; the user types and talks and
\* the socket connects, every path into handleSendMessage; no response is
\* streamed
InitEither ==
  Init1 /\ Init2 /\ InitUploader /\ variant \in { "part_001", "part_002" }

NextSubmit ==
  \/ UserChat
  \/ handleVoiceInput
  \/ Recogniser
  \/ Timers
  \/ Link

NextSubmitServerAudio ==
  \/ UserChat2
  \/ handleVoiceInput2
  \/ Recogniser2
  \/ Link2

NextEither ==
  \/ variant = "part_001" /\ NextSubmit
  \/ variant = "part_002" /\ NextSubmitServerAudio

SpecEither == InitEither /\ [][NextEither]_vars

\* speakChunk and processNextSpeech driven directly
SpecSequencer == Init /\ [][Sequencer]_vars

\* conversation mode: the two buttons of the welcome screen, the chat
\* opened and closed, documents, tap-to-talk, the recogniser with its errors
\* and the restart timers; no socket
NextMode ==
  \/ UserMode
  \/ UserView
  \/ handleVoiceInput
  \/ Recogniser
  \/ RecogniserError
  \/ Timers

SpecMode == Init /\ [][NextMode]_vars

\* the same, where every setTimeout callback runs and the recogniser, once
\* stopping, fires its 'end' event
SpecModeFair ==
  Init /\ [][NextMode]_vars /\ WF_vars(Timers) /\ WF_vars(onend)

\* tap-to-talk with and without conversation mode: the two buttons of the
\* welcome screen, the microphone button, the recogniser, the restart
\* timers and the socket's connection; no response is streamed
SpecTapToTalk ==
  Init /\ [][UserMode \/ handleVoiceInput \/ Recogniser \/ Timers \/ Link]_vars

\* the uploader hook: files are dropped on the page, and every await of a
\* call of handleFileDrop settles, one way or the other; the effect that
\* registers the drop listener runs
SpecUploader ==
  Init /\ [][NextUploader]_vars /\ WF_vars(UploadSettles)
       /\ WF_vars(DropListenerEffect)

\* the sequencer driven directly, and the conversation-mode button
SpecStopWhilePlaying == Init /\ [][Sequencer \/ toggleConversationMode]_vars

\* the sequencer driven directly, and the speaker button of a message
SpecReplay == Init /\ [][Sequencer \/ Replay]_vars

\* a document is uploaded, the user types and sends, the response is
\* streamed and completed; tap-to-talk and the recogniser's end set the
\* restart timers, and every timer that is set fires
NextResume ==
  \/ \E sd \in PdfSessions : SetSessionData(sd)
  \/ \E t \in TypedTexts : TypeInput(t)
  \/ ClickSend
  \/ handleVoiceInput
  \/ onend
  \/ Timers
  \/ Link
  \/ ai_start
  \/ \E r \in ResponseTexts : ai_complete(r)

SpecResume == Init /\ [][NextResume]_vars /\ WF_vars(Timers)

\* enqueueAudio and playNextAudio driven directly, with the callbacks of the
\* Audio elements and the two buttons that change audioMode
SpecAudioQueue == InitServerAudio /\ [][AudioQueue2]_vars

\* the same, where the synthesiser calls back (onend or onerror) for every
\* utterance it was handed
SpecSequencerFair == Init /\ [][Sequencer]_vars /\ WF_vars(UtteranceDone)

\* ================================================== properties
HasNonSpace(s) == \E i \in 1..Len(s) : s[i] # " "

PlaybackInProgress == isSpeakingRef \/ speechQueueRef # << >>

\* C1 (part_001): recognition.start() is never invoked while playback is in
\* progress, that is while isSpeakingRef is true or speechQueueRef is not
\* empty.
NoStartDuringPlayback == Invoked(lastStart) => ~PlaybackInProgress

\* C1, its case: the socket listeners call the speakChunk of the first
\* render, which returns at its !speechSynthesis test, so that playback is
\* never in progress in the component as mounted.
PlaybackNeverBegins == ~PlaybackInProgress /\ synth = << >>

\* C2 (part_001): while a response is being generated (isAIResponding, from
\* ai_start to ai_complete) the detector is not running and nothing invokes
\* recognition.start().
RecognitionPausedWhileResponding ==
  isAIResponding => (detector # "running" /\ ~Invoked(lastStart))

\* C3 (part_002): within one capture cycle, opened by onspeechstart, with one
\* final result, the recogniser callbacks (the final onresult and the timer
\* set by onspeechend) emit at most one user_message.
AtMostOneSubmissionPerCycle ==
  (cycle2.open /\ cycle2.finals # "many") => cycle2.sends # "many"

CaptureEnded == capture.phase = "ended" /\ capture.joined /\ capture.mode

\* C4 (part_001), as stated: with a session joined and conversation mode on,
\* interim results, one final result and then onend emit exactly one
\* user_message, whose message is the trimmed text of the final result.
FinalTextSubmittedOnce ==
  CaptureEnded => capture.sends = << Trim(capture.finalText) >>

\* C4 (part_001), amended: the same, for a final result whose text has a
\* character that is not whitespace.
NonBlankFinalTextSubmittedOnce ==
  (CaptureEnded /\ HasNonSpace(capture.finalText))
     => capture.sends = << Trim(capture.finalText) >>

\* C4, its case: a padded final text went out once, trimmed
FinalTextSubmittedTrimmed ==
  /\ CaptureEnded
  /\ capture.finalText = << "b", " " >>
  /\ capture.sends = << << "b" >> >>

\* C5 (part_001): an ai_start that arrives while a response is active
\* (isAIResponding) leaves the accumulated text currentAIMessage as it is.
SecondStartRejected ==
  [][(isAIResponding /\ srvActive' > srvActive)
        => currentAIMessage' = currentAIMessage]_vars

\* C6 (part_001): no user_message is emitted while isAIResponding is true,
\* whatever the path into handleSendMessage.
NoSubmissionWhileResponding == emitted # << >> => ~isAIResponding

\* C7 (part_001): no user_message is emitted while isConnected is false.
NoSubmissionWhileDisconnected == emitted # << >> => isConnected

NoSessionId ==
  /\ ~(sessionData.present /\ sessionData.sessionId # "")
  /\ sessionIdRef = ""
  /\ sessionId = ""

\* C8 (part_001): a call of handleSendMessage while sessionData.sessionId,
\* sessionIdRef and sessionId are all empty emits no user_message, leaves the
\* message history as it is and raises the 'Not connected' alert.
NoSessionRejectedAloud ==
  [][(NoSessionId /\ sendResult' # "none")
        => /\ emitted' = << >>
           /\ messages' = messages
           /\ notice' = "not_connected"]_vars

\* C8, its case: typed text that is not blank was refused for want of a
\* session id, with the alert
TypedTextRefusedAloud ==
  /\ sendResult = "no_session"
  /\ notice = "not_connected"
  /\ HasNonSpace(inputText)
  /\ NoSessionId

\* C9 (both components): the message of every emitted user_message has a
\* character that is not whitespace.
NoBlankSubmission ==
  /\ \A i \in 1..Len(emitted) : HasNonSpace(emitted[i].message)
  /\ \A i \in 1..Len(emitted2) : HasNonSpace(emitted2[i].message)

\* C9, its case: the recogniser's callback sent a final text that passed the
\* test of handleSendMessage
SpokenTextSubmitted ==
  /\ variant = "part_002"
  /\ emitted2 # << >>
  /\ cycle2.finals = "one"
  /\ cycle2.sends = "one"

IsPrefix(a, b) == Len(a) <= Len(b) /\ a = SubSeq(b, 1, Len(a))

\* C10 (part_001, speakChunk / processNextSpeech): segments reach
\* speechSynthesis.speak in the order speakChunk accepted them, at most one
\* segment is in flight, and a speakChunk call during playback leaves the
\* segment in flight alone.
PlaybackInEnqueueOrder ==
  /\ [](IsPrefix(spokenLog, enqLog) /\ Len(synth) <= 1)
  /\ [][(Len(enqLog') > Len(enqLog) /\ synth # << >>)
          => (synth' = synth /\ spokenLog' = spokenLog)]_vars

\* C10, its case: the second segment is in flight after the first ended,
\* while a third, accepted during playback, waits
SegmentWaitsDuringPlayback ==
  /\ Len(spokenLog) = 2
  /\ Len(synth) = 1
  /\ Len(speechQueueRef) = 1
  /\ isSpeakingRef

\* C11 (part_001, processNextSpeech): when the synthesiser calls back for
\* every utterance it is handed, every segment speakChunk accepted is
\* eventually handed to it, and when the queue is empty and no utterance is
\* in flight isSpeakingRef and isSpeaking are false.
QueueNeverStalls ==
  /\ \A n \in 1..MaxSegments : (Len(enqLog) >= n) ~> (Len(spokenLog) >= n)
  /\ []((speechQueueRef = << >> /\ synth = << >>)
          => (~isSpeakingRef /\ ~isSpeaking))

\* C11, its case: two segments were accepted, the second during the first,
\* both have been spoken and called back, and playback is over
QueueDrained ==
  /\ Len(enqLog) >= 2
  /\ spokenLog = enqLog
  /\ speechQueueRef = << >>
  /\ synth = << >>
  /\ ~isSpeakingRef

AudioDispatchFollowsSetting ==
  [][(Len(currentAIMessage') > Len(currentAIMessage))
       => ((Len(enqLog') > Len(enqLog)) <=> audioMode)]_vars

\* C14 (part_001, recognitionInstance.onerror): after an error whose kind is
\* neither 'no-speech' nor 'aborted', whatever the state it arrived in,
\* conversationMode is false, isListening is false and isConversationLocked
\* is true.
FatalErrorLocksMode ==
  (capture.phase = "failed" /\ capture.error \notin { "no-speech", "aborted" })
     => (~conversationMode /\ ~isListening /\ isConversationLocked)

\* C14, its case: a 'network' error has just arrived
FatalErrorArrived ==
  /\ capture.phase = "failed"
  /\ capture.error = "network"
  /\ isConversationLocked

\* C15 (part_001, restart and retry timers): once conversation mode has been
\* stopped (conversationMode false, isConversationLocked true), a timer that
\* fires does not invoke recognition.start().
TimersInertAfterStop ==
  [][(~conversationMode /\ isConversationLocked
        /\ \E k \in TimerKinds : timers'[k] < timers[k])
       => ~Invoked(lastStart')]_vars

\* C15, its case: the mode has been stopped by the button, the onend
\* restart timer has just fired, found isRecognitionRunningRef false and
\* its recognition.start() was not invoked
RestartTimerFiredAfterStop ==
  /\ ~conversationMode
  /\ isConversationLocked
  /\ ~audioMode
  /\ ~isRecognitionRunningRef
  /\ timers["onendRestart"] = 0
  /\ lastStart = "typeerror"

\* C16 (part_001, onend / onerror / ai_complete): an event that arrives while
\* isConversationLocked is true schedules no restart, retry or settle timer,
\* and a timer that fires while it is true does not invoke
\* recognition.start().
LockDisablesRestart ==
  [][isConversationLocked
       => /\ \A k \in TimerKinds : timers'[k] <= timers[k]
          /\ (\E k \in TimerKinds : timers'[k] < timers[k])
               => ~Invoked(lastStart')]_vars

StoppedModeCanBeEnabled ==
  (~conversationMode /\ isConversationLocked /\ ~showChat
     /\ recognition # NULL /\ detector = "idle" /\ ~isRecognitionRunningRef)
    => ENABLED (/\ toggleConversationMode
                /\ conversationMode'
                /\ ~isConversationLocked'
                /\ detector' = "running")

\* C19 (part_001, initial state and toggleConversationMode): initially
\* conversation mode is off and the recogniser is not capturing, and the
\* first invocation of the conversation-mode command, with a recogniser
\* available, calls recognition.start() and leaves conversationMode true
\* and isConversationLocked false. (The command can only run before the
\* lock is set, and sets it, so every run of it is the first.)
FirstToggleEnables ==
  /\ ~conversationMode /\ detector = "idle"
  /\ [][(toggleConversationMode /\ recognition # NULL)
          => /\ Invoked(lastStart')
             /\ conversationMode'
             /\ ~isConversationLocked']_vars

\* the last message of the chat is a completed response
ResponseCompleted ==
  /\ ~isAIResponding
  /\ messages # << >>
  /\ messages[Len(messages)].sender = "ai"
  /\ messages[Len(messages)].text \in ResponseTexts

\* C20 (part_001, ai_complete): when a response has completed with
\* conversation mode enabled and not locked, recognition.start() is
\* eventually invoked, given that every timer that is set fires.
ListeningResumesAfterResponse ==
  (ResponseCompleted /\ conversationMode /\ ~isConversationLocked)
     ~> Invoked(lastStart)

\* C21 (part_001, ai_start / ai_chunk / ai_complete): ai_start empties the
\* streaming text, every chunk is appended to it, and ai_complete appends
\* exactly one agent message with the response's full text to the message
\* list, empties the streaming text and sets isAIResponding false.
StreamAccumulates ==
  [][/\ ai_start => currentAIMessage' = Empty
     /\ \A c \in ChunkTexts :
          ai_chunk(c) => currentAIMessage' = currentAIMessage \o c
     /\ \A r \in ResponseTexts :
          ai_complete(r)
            => /\ messages' = Append(messages, [text |-> r, sender |-> "ai"])
               /\ currentAIMessage' = Empty
               /\ ~isAIResponding']_vars

\* C22 (part_001, session_joined): a session_joined with a non-empty history
\* leaves the message list holding the history's entries in their order,
\* sender 'user' for role 'user' and 'ai' otherwise, and puts at most one
\* segment on the playback queue: the content of the last 'tutor' entry,
\* and only with audioMode true.
HistoryReplayed ==
  [][\A sid \in SocketSessionIds, h \in HistoryLists :
       (Len(h) > 0 /\ session_joined(sid, h))
         => /\ Len(messages') = Len(h)
            /\ \A i \in 1..Len(h) :
                 /\ i <= Len(messages')
                 /\ messages'[i].text = h[i].content
                 /\ messages'[i].sender =
                      (IF h[i].role = "user" THEN "user" ELSE "ai")
            /\ \/ enqLog' = enqLog
               \/ /\ audioMode
                  /\ \E i \in 1..Len(h) :
                       /\ h[i].role = "tutor"
                       /\ \A j \in (i + 1)..Len(h) : h[j].role # "tutor"
                       /\ enqLog' = Append(enqLog, h[i].content)]_vars

\* C23 (part_001, the session effect and session_joined): whatever the order
\* in which the document's sessionData and the session_joined history
\* arrive, the message list never holds two messages whose text is the
\* document's initialMessage.
NoDuplicateInitialMessage ==
  \A sd \in PdfSessions :
     Cardinality({ i \in 1..Len(messages) :
                     messages[i].text = sd.initialMessage }) <= 1

\* C23, its case: the document is loaded, the session is joined, the chat
\* is shown and the list holds the initial message, once
InitialMessageOnce ==
  /\ sessionData.present
  /\ isConnected /\ ~joinRequested /\ sessionIdRef # ""
  /\ showChat
  /\ messages = << [text |-> sessionData.initialMessage, sender |-> "ai"] >>

\* C24 (part_001, every setMessages): with a document loaded, in a step
\* that neither changes sessionData nor disconnects, the message list is
\* left as it is or gets exactly one message appended at its tail.
MessagesAppendOnly ==
  [][(/\ sessionData.present
      /\ sessionData' = sessionData
      /\ ~(isConnected /\ ~isConnected'))
       => \/ messages' = messages
          \/ /\ Len(messages') = Len(messages) + 1
             /\ SubSeq(messages', 1, Len(messages)) = messages]_vars

\* C25 (part_001, the socket 'error' listener): the step that handles an
\* 'error' event raises the alert and sets isAIResponding false, and leaves
\* conversationMode, isConversationLocked, isListening, the message list
\* and the playback queue as they were.
TransportErrorKeepsMode ==
  [][(error \/ notice' = "error")
       => /\ notice' = "error"
          /\ ~isAIResponding'
          /\ UNCHANGED << conversationMode, isConversationLocked, isListening,
                          messages, speechQueueRef, isSpeakingRef >>]_vars

\* C25, its case: the alert of an 'error' event is up, and the user is
\* still listening in conversation mode
TransportErrorWhileListening ==
  /\ notice = "error"
  /\ conversationMode
  /\ isListening
  /\ detector = "running"

\* C26 (part_001, recognitionInstance.onerror): after a 'no-speech' or
\* 'aborted' error received while conversation mode is enabled and not
\* locked, recognition.start() is eventually invoked on the Detector.
RecoverableErrorRestarts ==
  (/\ capture.phase = "failed"
   /\ Recoverable(capture.error)
   /\ conversationMode
   /\ ~isConversationLocked) ~> Invoked(lastStart)

\* C27 (part_001, recognitionInstance.onend): a restart timer set by onend
\* while conversation mode is enabled, not locked and no response is
\* active leads to recognition.start() being invoked on the Detector,
\* unless the Detector was restarted in the meantime; and an onend that
\* finds one of the three conditions failing sets no restart timer and sets
\* isListening to false.
EndedDetectorRestarts ==
  /\ [][(onend /\ ~(conversationMode /\ ~isConversationLocked
                     /\ ~isAIResponding))
          => /\ timers'["onendRestart"] = timers["onendRestart"]
             /\ ~isListening']_vars
  /\ (/\ detector = "idle"
      /\ timers["onendRestart"] > 0
      /\ sendResult = "none"
      /\ conversationMode
      /\ ~isConversationLocked
      /\ ~isAIResponding) ~> (Invoked(lastStart) \/ isRecognitionRunningRef)

\* C28 (part_001): recognition.start() is never invoked on a Detector that
\* has been started and has not yet fired onend, whichever path calls it
\* (conversation toggle, tap-to-talk, the restart, settle and retry timers).
StartNeverOnRunningDetector == lastStart # "invalidstate"

\* a timer fires while conversation mode is disabled
TimerFiresOutsideMode ==
  ~conversationMode /\ \E k \in TimerKinds : timers'[k] < timers[k]

\* C29 (part_001, handleVoiceInput and onend), as stated: a capture that
\* ends while conversation mode is disabled, with a final non-empty
\* transcript, emits exactly one user_message with that text (trimmed), and
\* no timer restarts the Detector afterwards.
TapToTalkSubmits ==
  /\ []((capture.phase = "ended" /\ ~capture.mode
            /\ capture.finalText # Empty)
          => capture.sends = << Trim(capture.finalText) >>)
  /\ [][TimerFiresOutsideMode => detector' = detector]_vars

\* C29 (part_001), amended: the same, with a session joined and a final
\* transcript that has a character that is not whitespace.
TapToTalkSubmitsWhenJoined ==
  /\ []((capture.phase = "ended" /\ ~capture.mode /\ capture.joined
            /\ HasNonSpace(capture.finalText))
          => capture.sends = << Trim(capture.finalText) >>)
  /\ [][TimerFiresOutsideMode => detector' = detector]_vars

\* C29, its case: conversation mode is off, the Detector has just ended
\* with the final text "b " and one user_message "b" went out
TapToTalkSubmitted ==
  /\ capture.phase = "ended"
  /\ ~capture.mode
  /\ ~conversationMode
  /\ capture.finalText = << "b", " " >>
  /\ capture.sends = << << "b" >> >>
  /\ detector = "idle"

\* C30 (part_001, ai_complete): a response that completes while listening
\* is to be resumed (conversation mode enabled, not locked, a recogniser
\* present) sets the settle timer, and its delay is 1500 when audio output
\* is enabled at that time and 500 when it is disabled.
SettleDelayTracksAudio ==
  [][\A r \in ResponseTexts :
       (ai_complete(r) /\ conversationMode /\ ~isConversationLocked
          /\ recognition # NULL)
         => /\ timers'["settle"] = timers["settle"] + 1
            /\ ScheduledSettleDelay = SettleDelay(audioMode)]_vars

\* C31 (part_001, onresult / onspeechstart / onend): lastTranscriptRef
\* holds the text of one onresult event at most, never a concatenation of
\* two; an onresult event with text overwrites it with that text; it is
\* empty right after onspeechstart and right after onend has emitted a
\* user_message.
LastWriterWins ==
  /\ [](lastTranscriptRef \in SpokenTexts \cup { Empty })
  /\ [][/\ onspeechstart => lastTranscriptRef' = Empty
        /\ \A f \in SpokenTexts \cup { Empty }, i \in SpokenTexts \cup { Empty } :
             (onresult(f, i) /\ (f # Empty \/ i # Empty))
               => lastTranscriptRef' \in { f, i } \ { Empty }
        /\ (onend /\ emitted' # << >>) => lastTranscriptRef' = Empty]_vars

\* C31, its case: a final result has overwritten the buffer of a running
\* capture
FinalResultBuffered ==
  /\ detector = "running"
  /\ capture.phase = "final"
  /\ capture.finalText = << "b", " " >>
  /\ lastTranscriptRef = << "b", " " >>

\* C32 (part_002, useEffect([audioMode]) / playNextAudio): the step that
\* turns audioMode on with clips queued and no current clip starts the
\* clip at the head of the queue and leaves the rest queued; and every clip
\* started later while audioMode is on is the head of the queue at that
\* moment, one clip per step.
EnableResumesFromHead ==
  [][/\ (~audioMode2 /\ audioMode2' /\ audioQueueRef2 # << >>
          /\ currentAudioRef2 = NoElement)
         => /\ Len(audioElems2') = Len(audioElems2) + 1
            /\ currentAudioRef2' = Len(audioElems2')
            /\ audioElems2'[Len(audioElems2')].src = Head(audioQueueRef2)
            /\ audioQueueRef2' = Tail(audioQueueRef2)
     /\ (audioMode2 /\ audioQueueRef2 # << >>
          /\ Len(audioElems2') > Len(audioElems2))
         => /\ Len(audioElems2') = Len(audioElems2) + 1
            /\ audioElems2'[Len(audioElems2')].src = Head(audioQueueRef2)]_vars

\* C32, its case: two clips were queued with audio off, audio was turned
\* on, the first clip played to its end and the second is the current one
QueuedClipsResumed ==
  /\ audioMode2
  /\ Len(audioElems2) = 2
  /\ audioElems2[1].src = "clip2"
  /\ audioElems2[1].ended
  /\ audioElems2[2].src = "clip"
  /\ currentAudioRef2 = 2
  /\ audioQueueRef2 = << >>

\* the requests of the call id, in the order they were issued
RequestsOf(id) ==
  LET idx == { i \in 1..Len(requests) : requests[i].call = id }
      F[k \in 0..Len(requests)] ==
        IF k = 0 THEN << >>
        ELSE IF k \in idx THEN Append(F[k - 1], requests[k].api)
        ELSE F[k - 1]
  IN F[Len(requests)]

\* C33 (usePdfUploader.handleFileDrop): a call issues upload-pdf first and
\* start-conversation, if at all, second and only once upload-pdf has come
\* back ok with success true, carrying the sessionId of that answer;
\* onUploadSuccess is called at most once per dropped file, only when both
\* requests have succeeded, with the sessionId start-conversation returned,
\* the name of the dropped file and the returned message.
IngestionIsSequential ==
  /\ \A id \in DOMAIN uploads :
       /\ RequestsOf(id) \in { << >>, << "upload-pdf" >>,
                               << "upload-pdf", "start-conversation" >> }
       /\ Len(RequestsOf(id)) = 2 => uploads[id].upload = "success"
  /\ \A i \in DOMAIN requests :
       requests[i].api = "start-conversation"
         => requests[i].sessionId = UploadPdfResult("success").sessionId
  /\ \A i \in DOMAIN delivered, j \in DOMAIN delivered :
       delivered[i].call = delivered[j].call => i = j
  /\ \A i \in DOMAIN delivered :
       LET id == delivered[i].call IN
       /\ uploads[id].upload = "success"
       /\ uploads[id].start = "success"
       /\ Len(RequestsOf(id)) = 2
       /\ delivered[i].sessionId = StartConversationResult("success").sessionId
       /\ delivered[i].filename = uploads[id].file.name
       /\ delivered[i].initialMessage = StartConversationResult("success").message

\* C33, its case: a dropped PDF went through both requests and
\* onUploadSuccess was called for it
DocumentDelivered ==
  /\ Len(delivered) = 1
  /\ delivered[1].filename = "a.pdf"
  /\ delivered[1].sessionId = "p1"
  /\ uploads[delivered[1].call].pc = "done"
  /\ ~isUploading

\* a file that is not a PDF is dropped
OtherFileDropped ==
  \E f \in DroppedFiles : f.type # "application/pdf" /\ handleDrop(<< f >>)

\* one of the two requests comes back without success
RequestFails ==
  \E id \in DOMAIN uploads, o \in FetchOutcomes \ { "success" } :
     \/ uploadPdfSettles(id, UploadPdfResult(o))
     \/ startConversationSettles(id, StartConversationResult(o))

\* what a failed request leaves behind
FailureReported ==
  /\ delivered' = delivered
  /\ requests' = requests
  /\ uploadError' # NULL
  /\ uploadStatus' = "Operation failed"

\* C34 (usePdfUploader.handleFileDrop), as stated: a dropped file that is
\* not a PDF issues no request, leaves isUploading false and sets
\* uploadError; a request that is not ok, reports success false or throws
\* leads to no onUploadSuccess and no further request, sets uploadError and
\* makes uploadStatus report the failure.
UploadFailuresReported ==
  [][/\ OtherFileDropped
         => (requests' = requests /\ ~isUploading' /\ uploadError' # NULL)
     /\ RequestFails => FailureReported]_vars

\* C34, amended: the same, for a file dropped on a handler that does not
\* see an upload in progress.
UploadFailuresReportedWhenIdle ==
  [][/\ (OtherFileDropped /\ ~dropHandlerIsUploading)
         => (requests' = requests /\ ~isUploading' /\ uploadError' # NULL)
     /\ RequestFails => FailureReported]_vars

\* C34, its case: upload-pdf came back with a status that is not ok; the
\* second request was not issued and the failure is reported
UploadPdfRefused ==
  /\ Len(uploads) = 1
  /\ uploads[1].pc = "failed"
  /\ uploads[1].upload = "not_ok"
  /\ requests = << [api |-> "upload-pdf", call |-> 1, sessionId |-> ""] >>
  /\ delivered = << >>
  /\ uploadError = "failed"
  /\ ~isUploading

\* the calls of handleFileDrop that are past the guards and not finished
UploadsInProgress ==
  { id \in DOMAIN uploads : uploads[id].pc \in { "extract", "upload", "start" } }

\* C35 (usePdfUploader): at most one call of handleFileDrop is in progress
\* at any time, and a file dropped while an upload is in progress starts
\* no call and issues no request.
OneUploadAtATime ==
  /\ [](Cardinality(UploadsInProgress) <= 1)
  /\ [][\A f \in DroppedFiles :
          (handleDrop(<< f >>) /\ (isUploading \/ UploadsInProgress # {}))
             => (uploads' = uploads /\ requests' = requests)]_vars

\* C35, its case: a file was dropped while the first upload was waiting for
\* upload-pdf, and was ignored
DropIgnoredDuringUpload ==
  /\ dropResult = "ignored"
  /\ isUploading
  /\ Len(uploads) = 1
  /\ uploads[1].pc = "upload"
  /\ Len(requests) = 1

\* C36 (usePdfUploader.handleFileDrop, try/catch/finally): when no call of
\* handleFileDrop is in progress isUploading is false, whatever the outcome
\* of the calls was; and once isUploading is true, a state is eventually
\* reached where it is false and the drop listener accepts a file again.
UploadTerminates ==
  /\ [](UploadsInProgress = {} => ~isUploading)
  /\ isUploading ~> (~isUploading /\ ~dropHandlerIsUploading)

\* C36, its case: text extraction threw, the upload is over and the
\* listener accepts files again
ExtractionFailedAndIdle ==
  /\ Len(uploads) = 1
  /\ uploads[1].pc = "failed"
  /\ requests = << >>
  /\ ~isUploading
  /\ ~dropHandlerIsUploading

\* C37: a segment processNextSpeech started is in flight only while
\* isSpeakingRef is true, and at most one such segment is in flight
SegmentsInFlight ==
  { i \in DOMAIN synth : synth[i].kind = "segment" }

LiveClip(e) == ~e.paused /\ ~e.ended /\ e.play # "rejected"

\* the urls of the elements created so far, followed by the queued ones
StartedThenQueued ==
  [i \in DOMAIN audioElems2 |-> audioElems2[i].src] \o audioQueueRef2

ClipCallback ==
  \E id \in DOMAIN audioElems2 :
    \/ audio_play_then(id)
    \/ audio_play_catch(id)
    \/ audio_onended(id)
    \/ audio_onerror(id)

\* C38 (part_002, playNextAudio / handleComplete): a clip that is live is
\* the current one, so at most one is; a callback of a clip, in any order
\* and however often for the same clip, starts at most one clip, the head of
\* the queue, only when the current clip is no longer live, and leaves the
\* urls started so far followed by the queued ones as they were: each
\* queued clip is started once, in queue order, and none is skipped
SingleCurrentClip ==
  /\ [](\A id \in DOMAIN audioElems2 :
          LiveClip(audioElems2[id]) => currentAudioRef2 = id)
  /\ [][ClipCallback
         => /\ StartedThenQueued' = StartedThenQueued
            /\ Len(audioElems2') <= Len(audioElems2) + 1
            /\ Len(audioElems2') > Len(audioElems2)
                 => /\ currentAudioRef2' = Len(audioElems2')
                    /\ audioElems2'[Len(audioElems2')].src
                         = Head(audioQueueRef2)
                    /\ \A id \in DOMAIN audioElems2 :
                         ~LiveClip(audioElems2'[id])]_vars

\* C38, its case: the first clip failed and its play() was rejected as
\* well, two completions of one clip, and the clip queued behind it was
\* started once and is current
DuplicateCompletionHandled ==
  /\ Len(audioElems2) = 2
  /\ audioElems2[1].ended
  /\ audioElems2[1].play = "rejected"
  /\ audioElems2[1].src = "clip2"
  /\ audioElems2[2].src = "clip"
  /\ LiveClip(audioElems2[2])
  /\ currentAudioRef2 = 2
  /\ audioQueueRef2 = << >>

\* the step appends exactly the user Message m to the history
AppendsUserMessage(text) ==
  messages' = Append(messages, [text |-> text, sender |-> "user"])

\* the first half of C39: what an emitted user_message comes with
EmittedWithUserMessage ==
  [][emitted' # << >>
       => /\ emitted'[1].sessionId # ""
          /\ AppendsUserMessage(emitted'[1].message)]_vars

\* the second half of C39: a rejected call of handleSendMessage
RejectedSendChangesNothing ==
  [][sendResult' \in { "blank", "no_session" }
       => /\ emitted' = << >>
          /\ messages' = messages]_vars

\* C39 (part_001, handleSendMessage): a step that emits a user_message
\* emits it with a non-empty sessionId and appends exactly one user Message
\* with the same text to the history; a step in which handleSendMessage
\* rejects the call (blank text, no socket or no session id) emits nothing
\* and leaves the history as it was
SentAndHistoryInStep ==
  /\ EmittedWithUserMessage
  /\ RejectedSendChangesNothing

\* C40 (part_001, handleResetClick and the effect on sessionData): a step
\* in which sessionData becomes null while the message list is not empty
\* leaves the list empty, the chat view hidden and isConversationLocked
\* true; one in which it becomes null with an empty list leaves the lock
\* flag and the messages as they were
ResetClearsConversation ==
  [][(sessionData.present /\ ~sessionData'.present)
       => IF messages # << >>
          THEN /\ messages' = << >>
               /\ ~showChat'
               /\ isConversationLocked'
          ELSE /\ messages' = messages
               /\ isConversationLocked' = isConversationLocked]_vars

\* C40, its case: the document was removed with its initial message in the
\* list. Nothing else can have set the lock or emptied a list here: the
\* mode was never stopped and no session id was ever received
ConversationReset ==
  /\ ~sessionData.present
  /\ messages = << >>
  /\ ~showChat
  /\ isConversationLocked
  /\ conversationMode
  /\ sessionId = ""
  /\ sessionIdRef = ""
  /\ srvPending = 0
  /\ srvActive = 0

====
